---- MODULE Spec2Model ----
(***************************************************************************)
(* Model of the curriculum analysis service: the value objects             *)
(* (curriculum_values.py), the rule based intelligence service             *)
(* (transformers_service.py), the AnalyzeCurriculumsUseCase                *)
(* (analyze_curriculums.py), the text extractor (tesseract_extractor.py)   *)
(* and the dependency container (dependency_container.py).                 *)
(*                                                                         *)
(* A Python str is a sequence of one-character strings; None is the model  *)
(* value None; a float is an exact fraction <<numerator, denominator>>.    *)
(***************************************************************************)
EXTENDS Integers, Sequences, FiniteSets, TLC

VARIABLES
    \* value objects under construction (SpecValues)
    vin, vout, vpc,
    \* one (analysis, query) pair being scored (SpecScore)
    sanalysis, squery, requirements, terms, score, spc,
    \* analyze_query_match over a list of analyses (SpecRank)
    ranalyses, rquery, matches, analysis_reasoning, rpc,
    \* the repository collections and the execute calls (Spec)
    documents, analyses_collection, audits_collection,
    pc, document_ids, query, idx, analyses, document, error, result, next_id, failures,
    \* analyze_curriculum on one document (SpecExtract)
    eparts, etext, efile_name, eseed, eskills, eexperience, elevel, esummary, eeducation,
    eanalysis, eerror, epc,
    \* one call of extract_from_bytes (SpecOcr)
    otype, ocontent, oresult, opc,
    \* the global container and the callers of get_container (SpecContainer)
    container, cpc, received

vars == << vin, vout, vpc,
           sanalysis, squery, requirements, terms, score, spc,
           ranalyses, rquery, matches, analysis_reasoning, rpc,
           documents, analyses_collection, audits_collection,
           pc, document_ids, query, idx, analyses, document, error, result, next_id, failures,
           eparts, etext, efile_name, eseed, eskills, eexperience, elevel, esummary, eeducation,
           eanalysis, eerror, epc,
           otype, ocontent, oresult, opc,
           container, cpc, received >>

valueVars == << vin, vout, vpc >>
scoreVars == << sanalysis, squery, requirements, terms, score, spc >>
rankVars  == << ranalyses, rquery, matches, analysis_reasoning, rpc >>
execVars  == << documents, analyses_collection, audits_collection,
                pc, document_ids, query, idx, analyses, document, error, result, next_id, failures >>
extractVars == << eparts, etext, efile_name, eseed, eskills, eexperience, elevel, esummary,
                  eeducation, eanalysis, eerror, epc >>
ocrVars == << otype, ocontent, oresult, opc >>
containerVars == << container, cpc, received >>

\* None, comparable with every str (no str has a four-character element)
None == << "None" >>
\* None where an object (a record) is expected
Null == [null |-> TRUE]

(***************************************************************************)
(* Python str operations                                                   *)
(***************************************************************************)
LowerLetters ==
    << "a","b","c","d","e","f","g","h","i","j","k","l","m","n","o","p","q",
       "r","s","t","u","v","w","x","y","z","ê","ú","ç","ã","á","é","í" >>
UpperLetters ==
    << "A","B","C","D","E","F","G","H","I","J","K","L","M","N","O","P","Q",
       "R","S","T","U","V","W","X","Y","Z","Ê","Ú","Ç","Ã","Á","É","Í" >>
Digits == << "0","1","2","3","4","5","6","7","8","9" >>
Whitespace == { " ", "\n", "\t" }

IndexIn(c, tbl) ==
    IF \E k \in 1..Len(tbl) : tbl[k] = c
    THEN CHOOSE k \in 1..Len(tbl) : tbl[k] = c
    ELSE 0

LowerSet == { LowerLetters[k] : k \in 1..Len(LowerLetters) }
UpperSet == { UpperLetters[k] : k \in 1..Len(UpperLetters) }
DigitSet == { Digits[k] : k \in 1..Len(Digits) }
\* the lower case of every upper-case letter, and the upper case of every lower-case letter
LowerOf == [c \in UpperSet |-> LowerLetters[IndexIn(c, UpperLetters)]]
UpperOf == [c \in LowerSet |-> UpperLetters[IndexIn(c, LowerLetters)]]
DigitValue == [c \in DigitSet |-> IndexIn(c, Digits) - 1]

IsLetter(c) == c \in LowerSet \/ c \in UpperSet
IsDigit(c)  == c \in DigitSet

LowerChar(c) == IF c \in UpperSet THEN LowerOf[c] ELSE c
UpperChar(c) == IF c \in LowerSet THEN UpperOf[c] ELSE c

\* str.lower()
Lower(s) == [k \in 1..Len(s) |-> LowerChar(s[k])]

\* str.title(): the first letter of every run of letters in upper case, the rest in lower case
Title(s) ==
    [k \in 1..Len(s) |->
        IF IsLetter(s[k]) /\ (k = 1 \/ ~IsLetter(s[k-1]))
        THEN UpperChar(s[k]) ELSE LowerChar(s[k])]

Strip_identity(s) == s

\* str.strip()
Strip(s) ==
    IF \A k \in 1..Len(s) : s[k] \in Whitespace THEN << >>
    ELSE LET a == CHOOSE k \in 1..Len(s) :
                      s[k] \notin Whitespace /\ \A j \in 1..(k-1) : s[j] \in Whitespace
             b == CHOOSE k \in 1..Len(s) :
                      s[k] \notin Whitespace /\ \A j \in (k+1)..Len(s) : s[j] \in Whitespace
         IN  SubSeq(s, a, b)

\* sub occurs in s at position p
OccursAt(sub, s, p) ==
    /\ p >= 1
    /\ p + Len(sub) - 1 <= Len(s)
    /\ \A k \in 1..Len(sub) : s[p + k - 1] = sub[k]

\* the operator "sub in s"
Contains(s, sub) == \E p \in 1..(Len(s) + 1) : OccursAt(sub, s, p)

\* int(digits)
RECURSIVE ParseInt(_)
ParseInt(ds) ==
    IF ds = << >> THEN 0
    ELSE 10 * ParseInt(SubSeq(ds, 1, Len(ds) - 1)) + DigitValue[ds[Len(ds)]]

\* str(n) of a non-negative int
RECURSIVE IntToStr(_)
IntToStr(n) ==
    IF n < 10 THEN << Digits[n + 1] >>
    ELSE IntToStr(n \div 10) \o << Digits[(n % 10) + 1] >>

\* the end of the run of digits that starts at p
DigitRunEnd(s, p) ==
    CHOOSE e \in p..Len(s) :
        /\ \A k \in p..e : IsDigit(s[k])
        /\ (e = Len(s) \/ ~IsDigit(s[e + 1]))

\* str.split(): the maximal runs of non-whitespace characters, in order
RECURSIVE Split(_)
Split(s) ==
    IF \A k \in 1..Len(s) : s[k] \in Whitespace THEN << >>
    ELSE LET a == CHOOSE k \in 1..Len(s) :
                      s[k] \notin Whitespace /\ \A j \in 1..(k-1) : s[j] \in Whitespace
             b == CHOOSE k \in a..Len(s) :
                      /\ \A j \in a..k : s[j] \notin Whitespace
                      /\ (k = Len(s) \/ s[k + 1] \in Whitespace)
         IN  << SubSeq(s, a, b) >> \o Split(SubSeq(s, b + 1, Len(s)))

\* Op(v), with v evaluated once: a local variable holding the value of an expression
Let(v, Op(_)) == CHOOSE r \in { Op(x) : x \in { v } } : TRUE


(***************************************************************************)
(* float arithmetic, as exact fractions <<n, d>> with d > 0                *)
(***************************************************************************)
RECURSIVE GCD(_, _)
GCD(a, b) == IF b = 0 THEN a ELSE GCD(b, a % b)
Abs(n) == IF n < 0 THEN -n ELSE n
\* n / d in lowest terms
Frac(n, d) == LET g == GCD(Abs(n), d) IN << n \div g, d \div g >>
FAdd(a, b) == Frac(a[1] * b[2] + b[1] * a[2], a[2] * b[2])
FMul(a, b) == Frac(a[1] * b[1], a[2] * b[2])
FLeq(a, b) == a[1] * b[2] <= b[1] * a[2]
FLt(a, b)  == a[1] * b[2] < b[1] * a[2]
FMin(a, b) == IF FLeq(a, b) THEN a ELSE b
FMax(a, b) == IF FLeq(a, b) THEN b ELSE a
FZero == Frac(0, 1)
FOne  == Frac(1, 1)

(***************************************************************************)
(* curriculum_values.py                                                    *)
(***************************************************************************)
\* ProfessionalLevel: the members and their values
ProfessionalLevel == { "JUNIOR", "PLENO", "SENIOR", "ESPECIALISTA", "UNKNOWN" }
LevelValue(l) ==
    CASE l = "JUNIOR"       -> <<"J","ú","n","i","o","r">>
      [] l = "PLENO"        -> <<"P","l","e","n","o">>
      [] l = "SENIOR"       -> <<"S","ê","n","i","o","r">>
      [] l = "ESPECIALISTA" -> <<"E","s","p","e","c","i","a","l","i","s","t","a">>
      [] l = "UNKNOWN"      -> <<"D","e","s","c","o","n","h","e","c","i","d","o">>
\* ProfessionalLevel(value): the member with that value (ValueError when there is none)
LevelOfValue(v) ==
    IF \E l \in ProfessionalLevel : LevelValue(l) = v
    THEN CHOOSE l \in ProfessionalLevel : LevelValue(l) = v
    ELSE "ValueError"

\* level_scores of MatchScore.calculate, with .get(level, 0) for the other levels
level_scores(l) ==
    CASE l = "JUNIOR"       -> 1
      [] l = "PLENO"        -> 2
      [] l = "SENIOR"       -> 3
      [] l = "ESPECIALISTA" -> 4
      [] OTHER              -> 0

\* bool(x) of an Optional[str]
Truthy(x) == x # None /\ x # << >>

\* TransformersIntelligenceService.technical_skills_patterns
technical_skills_patterns ==
    << <<"p","y","t","h","o","n">>, <<"j","a","v","a">>, <<"j","a","v","a","s","c","r","i","p","t">>,
       <<"t","y","p","e","s","c","r","i","p","t">>, <<"c","+","+">>, <<"c","#">>,
       <<"g","o">>, <<"r","u","s","t">>, <<"p","h","p">>,
       <<"r","u","b","y">>, <<"s","w","i","f","t">>, <<"k","o","t","l","i","n">>,
       <<"s","c","a","l","a">>, <<"r">>, <<"m","a","t","l","a","b">>,
       <<"s","q","l">>, <<"r","e","a","c","t">>, <<"a","n","g","u","l","a","r">>,
       <<"v","u","e">>, <<"d","j","a","n","g","o">>, <<"f","l","a","s","k">>,
       <<"f","a","s","t","a","p","i">>, <<"s","p","r","i","n","g">>, <<"e","x","p","r","e","s","s">>,
       <<"n","o","d","e","j","s">>, <<"l","a","r","a","v","e","l">>, <<"r","a","i","l","s">>,
       <<"n","e","x","t",".","j","s">>, <<"n","u","x","t">>, <<"p","o","s","t","g","r","e","s","q","l">>,
       <<"m","y","s","q","l">>, <<"m","o","n","g","o","d","b">>, <<"r","e","d","i","s">>,
       <<"e","l","a","s","t","i","c","s","e","a","r","c","h">>, <<"s","q","l","i","t","e">>, <<"o","r","a","c","l","e">>,
       <<"s","q","l"," ","s","e","r","v","e","r">>, <<"c","a","s","s","a","n","d","r","a">>, <<"d","y","n","a","m","o","d","b">>,
       <<"d","o","c","k","e","r">>, <<"k","u","b","e","r","n","e","t","e","s">>, <<"a","w","s">>,
       <<"a","z","u","r","e">>, <<"g","c","p">>, <<"t","e","r","r","a","f","o","r","m">>,
       <<"j","e","n","k","i","n","s">>, <<"g","i","t","l","a","b"," ","c","i">>, <<"g","i","t","h","u","b"," ","a","c","t","i","o","n","s">>,
       <<"a","n","s","i","b","l","e">>, <<"c","h","e","f">>, <<"g","i","t">>,
       <<"l","i","n","u","x">>, <<"n","g","i","n","x">>, <<"a","p","a","c","h","e">>,
       <<"m","i","c","r","o","s","e","r","v","i","c","e","s">>, <<"a","p","i"," ","r","e","s","t">>, <<"g","r","a","p","h","q","l">>,
       <<"m","a","c","h","i","n","e"," ","l","e","a","r","n","i","n","g">>, <<"d","a","t","a"," ","s","c","i","e","n","c","e">>, <<"b","i","g"," ","d","a","t","a">>,
       <<"p","a","n","d","a","s">>, <<"n","u","m","p","y">>, <<"t","e","n","s","o","r","f","l","o","w">>,
       <<"p","y","t","o","r","c","h">> >>

\* the keyword lists of TechnicalSkillSet._categorize_skill
languages ==
    << <<"p","y","t","h","o","n">>, <<"j","a","v","a">>, <<"j","a","v","a","s","c","r","i","p","t">>,
       <<"t","y","p","e","s","c","r","i","p","t">>, <<"c","+","+">>, <<"c","#">>,
       <<"g","o">>, <<"r","u","s","t">>, <<"p","h","p">>,
       <<"r","u","b","y">> >>

frameworks ==
    << <<"r","e","a","c","t">>, <<"a","n","g","u","l","a","r">>, <<"v","u","e">>,
       <<"d","j","a","n","g","o">>, <<"f","l","a","s","k">>, <<"f","a","s","t","a","p","i">>,
       <<"s","p","r","i","n","g">>, <<"e","x","p","r","e","s","s">> >>

databases ==
    << <<"p","o","s","t","g","r","e","s","q","l">>, <<"m","y","s","q","l">>, <<"m","o","n","g","o","d","b">>,
       <<"r","e","d","i","s">>, <<"e","l","a","s","t","i","c","s","e","a","r","c","h">>, <<"s","q","l","i","t","e">> >>

devops ==
    << <<"d","o","c","k","e","r">>, <<"k","u","b","e","r","n","e","t","e","s">>, <<"a","w","s">>,
       <<"a","z","u","r","e">>, <<"g","c","p">>, <<"t","e","r","r","a","f","o","r","m">>,
       <<"j","e","n","k","i","n","s">> >>

\* any(kw in text for kw in keywords)
AnyIn(keywords, text) == \E k \in 1..Len(keywords) : Contains(text, keywords[k])

categorize_skill(skill) ==
    LET skill_lower == Lower(skill)
    IN  IF AnyIn(languages, skill_lower) THEN "Linguagem de Programação"
        ELSE IF AnyIn(frameworks, skill_lower) THEN "Framework"
        ELSE IF AnyIn(databases, skill_lower) THEN "Banco de Dados"
        ELSE IF AnyIn(devops, skill_lower) THEN "DevOps"
        ELSE "Geral"

\* TechnicalSkill(name, category): a frozen dataclass, equal when both fields are equal
TechnicalSkill(name, category) == [name |-> name, category |-> category]

\* TechnicalSkillSet.__init__: the set of the skills built from the non-blank entries
TechnicalSkillSetInit(skills) ==
    { TechnicalSkill(Strip(skills[k]), categorize_skill(skills[k])) :
        k \in { j \in 1..Len(skills) : skills[j] # << >> /\ Strip(skills[j]) # << >> } }

\* TechnicalSkill.matches
matches_skill(skill, other_skill) == Lower(skill.name) = Lower(other_skill)

\* TechnicalSkillSet.has_skill
has_skill(skillset, skill_name) == \E s \in skillset : matches_skill(s, skill_name)

\* ExperienceYears(years) with __post_init__
ExperienceYearsNew(years) ==
    IF years < 0
    THEN [ok |-> FALSE, error |-> "ValueError", years |-> None, level |-> None]
    ELSE [ok |-> TRUE, error |-> None, years |-> years, level |-> None]

get_level_suggestion_gt5(years) ==
    IF years > 5 THEN "SENIOR"
    ELSE IF years >= 2 THEN "PLENO"
    ELSE IF years > 0 THEN "JUNIOR"
    ELSE "UNKNOWN"

\* ExperienceYears.get_level_suggestion
get_level_suggestion(years) ==
    IF years >= 5 THEN "SENIOR"
    ELSE IF years >= 2 THEN "PLENO"
    ELSE IF years > 0 THEN "JUNIOR"
    ELSE "UNKNOWN"

\* ExperienceYears.__str__
ExperienceStr(years) == IntToStr(years) \o << " ", "a", "n", "o", "s" >>

MatchScoreNew_strict(value) ==
    IF FLt(FZero, value) /\ FLt(value, FOne)
    THEN [ok |-> TRUE, error |-> None, value |-> value]
    ELSE [ok |-> FALSE, error |-> "ValueError", value |-> None]

\* MatchScore(value) with __post_init__
MatchScoreNew(value) ==
    IF ~(FLeq(FZero, value) /\ FLeq(value, FOne))
    THEN [ok |-> FALSE, error |-> "ValueError", value |-> None]
    ELSE [ok |-> TRUE, error |-> None, value |-> value]

\* level term: 0.2 for every candidate of a required level
calculate_level_all_or_nothing(required_skills, candidate_skills, required_experience, candidate_experience, required_level, candidate_level) ==
    LET skills_part ==
            IF required_skills # << >>
            THEN FMul(Frac(Cardinality({ k \in 1..Len(required_skills) :
                                           has_skill(candidate_skills, required_skills[k]) }),
                           Len(required_skills)),
                      Frac(5, 10))
            ELSE FZero
        experience_part ==
            IF required_experience > 0
            THEN IF candidate_experience >= required_experience THEN Frac(3, 10)
                 ELSE FMul(Frac(candidate_experience, required_experience), Frac(3, 10))
            ELSE FZero
        level_part ==
            IF required_level # "UNKNOWN"
            THEN IF level_scores(candidate_level) >= level_scores(required_level)
                 THEN Frac(2, 10) ELSE FZero
            ELSE FZero
    IN  MatchScoreNew(FMin(FAdd(FAdd(skills_part, experience_part), level_part), FOne))

\* MatchScore.calculate
calculate(required_skills, candidate_skills, required_experience, candidate_experience, required_level, candidate_level) ==
    LET \* "Score por habilidades (50%)"
        skills_part ==
            IF required_skills # << >>
            THEN LET matched_skills ==
                         Cardinality({ k \in 1..Len(required_skills) :
                                         has_skill(candidate_skills, required_skills[k]) })
                     skills_score == Frac(matched_skills, Len(required_skills))
                 IN  FMul(skills_score, Frac(5, 10))
            ELSE FZero
        \* "Score por experiência (30%)"
        experience_part ==
            IF required_experience > 0
            THEN IF candidate_experience >= required_experience THEN Frac(3, 10)
                 ELSE LET ratio == Frac(candidate_experience, required_experience)
                      IN  FMul(ratio, Frac(3, 10))
            ELSE FZero
        \* "Score por nível (20%)"
        level_part ==
            IF required_level # "UNKNOWN"
            THEN LET req_score  == level_scores(required_level)
                     cand_score == level_scores(candidate_level)
                 IN  IF cand_score >= req_score THEN Frac(2, 10)
                     ELSE IF Abs(cand_score - req_score) <= 1 THEN Frac(1, 10)
                     ELSE FZero
            ELSE FZero
    IN  MatchScoreNew(FMin(FAdd(FAdd(skills_part, experience_part), level_part), FOne))

(***************************************************************************)
(* transformers_service.py: the query interpreter and the match scorer     *)
(***************************************************************************)
\* CurriculumAnalysis: the fields the scorer reads
CurriculumAnalysis(id, document_id, summary, skills, experience_years, position_level, education) ==
    [id |-> id, document_id |-> document_id, summary |-> summary, skills |-> skills,
     experience_years |-> experience_years, position_level |-> position_level,
     education |-> education]

\* the first position at or after q that holds no whitespace (Len(s) + 1 when there is none)
SkipWhitespace(s, q) ==
    CHOOSE k \in q..(Len(s) + 1) :
        /\ \A j \in q..(k - 1) : s[j] \in Whitespace
        /\ (k = Len(s) + 1 \/ s[k] \notin Whitespace)

\* r'(\d+)\+?\s*anos?' matches at position p
ExpPatternMatchesAt(s, p) ==
    /\ p \in 1..Len(s)
    /\ IsDigit(s[p])
    /\ LET e  == DigitRunEnd(s, p)
           q1 == IF e + 1 <= Len(s) /\ s[e + 1] = "+" THEN e + 2 ELSE e + 1
           q2 == SkipWhitespace(s, q1)
       IN  OccursAt(<< "a", "n", "o" >>, s, q2)

\* re.search(r'(\d+)\+?\s*anos?', s): group(1) of the leftmost match, None without a match
SearchExpPattern(s) ==
    IF \E p \in 1..Len(s) : ExpPatternMatchesAt(s, p)
    THEN LET p == CHOOSE k \in 1..Len(s) :
                      ExpPatternMatchesAt(s, k) /\ \A j \in 1..(k - 1) : ~ExpPatternMatchesAt(s, j)
         IN  SubSeq(s, p, DigitRunEnd(s, p))
    ELSE None

\* re.search(r'(\d+)', s): group(1) of the leftmost match, None without a match
SearchDigits(s) ==
    IF \E p \in 1..Len(s) : IsDigit(s[p])
    THEN LET p == CHOOSE k \in 1..Len(s) : IsDigit(s[k]) /\ \A j \in 1..(k - 1) : ~IsDigit(s[j])
         IN  SubSeq(s, p, DigitRunEnd(s, p))
    ELSE None

\* the "Extrair nível" branch of _parse_query_requirements
parse_query_level(query_lower) ==
    IF AnyIn(<< <<"s","e","n","i","o","r">>, <<"s","ê","n","i","o","r">> >>, query_lower) THEN "SENIOR"
    ELSE IF AnyIn(<< <<"j","u","n","i","o","r">>, <<"j","ú","n","i","o","r">> >>, query_lower) THEN "JUNIOR"
    ELSE IF Contains(query_lower, <<"p","l","e","n","o">>) THEN "PLENO"
    ELSE "UNKNOWN"

\* the "Extrair anos de experiência" branch of _parse_query_requirements
parse_query_experience(query_lower) ==
    LET Years(exp_match) == IF exp_match # None THEN ParseInt(exp_match) ELSE 0
    IN  Let(SearchExpPattern(query_lower), Years)

\* the required skills taken as the taxonomy tokens that are words of the query
parse_query_requirements_words(q) ==
    LET Parse(query_lower) ==
            [ skills           |-> SelectSeq(technical_skills_patterns,
                                             LAMBDA skill : \E k \in 1..Len(Split(query_lower)) :
                                                                Split(query_lower)[k] = skill),
              experience_years |-> parse_query_experience(query_lower),
              level            |-> parse_query_level(query_lower),
              keywords         |-> Split(q) ]
    IN  Let(Lower(q), Parse)

\* TransformersIntelligenceService._parse_query_requirements
parse_query_requirements(q) ==
    LET Parse(query_lower) ==
            [ skills           |-> SelectSeq(technical_skills_patterns,
                                             LAMBDA skill : Contains(query_lower, skill)),
              experience_years |-> parse_query_experience(query_lower),
              level            |-> parse_query_level(query_lower),
              keywords         |-> Split(q) ]
    IN  Let(Lower(q), Parse)

\* "Score por habilidades (40%)"
\* the names of the record compared as they are stored
SkillsTerm_as_stored(analysis, reqs) ==
    IF reqs.skills # << >>
    THEN LET analysis_skills == { analysis.skills[k] : k \in 1..Len(analysis.skills) }
             matched_skills  == Cardinality({ k \in 1..Len(reqs.skills) :
                                               reqs.skills[k] \in analysis_skills })
         IN  FMul(Frac(matched_skills, Len(reqs.skills)), Frac(4, 10))
    ELSE FZero

SkillsTerm(analysis, reqs) ==
    IF reqs.skills # << >>
    THEN LET analysis_skills == { Lower(analysis.skills[k]) : k \in 1..Len(analysis.skills) }
             matched_skills  == Cardinality({ k \in 1..Len(reqs.skills) :
                                               reqs.skills[k] \in analysis_skills })
         IN  FMul(Frac(matched_skills, Len(reqs.skills)), Frac(4, 10))
    ELSE FZero

ExperienceTerm_uncapped(analysis, reqs) ==
    IF reqs.experience_years > 0 /\ Truthy(analysis.experience_years)
    THEN LET m == SearchDigits(analysis.experience_years)
         IN  IF m = None THEN FZero
             ELSE FMul(Frac(ParseInt(m), reqs.experience_years), Frac(3, 10))
    ELSE FZero

\* "Score por experiência (30%)"; an analysis whose experience holds no digit raises
\* inside the try and adds nothing
ExperienceTerm(analysis, reqs) ==
    IF reqs.experience_years > 0 /\ Truthy(analysis.experience_years)
    THEN LET m == SearchDigits(analysis.experience_years)
         IN  IF m = None THEN FZero
             ELSE LET analysis_years == ParseInt(m)
                  IN  IF analysis_years >= reqs.experience_years
                      THEN Frac(3, 10)
                      ELSE FMul(Frac(analysis_years, reqs.experience_years), Frac(3, 10))
    ELSE FZero

\* "Score por nível (20%)"
LevelTerm(analysis, reqs) ==
    IF /\ reqs.level # "UNKNOWN"
       /\ Truthy(analysis.position_level)
       /\ LevelOfValue(analysis.position_level) = reqs.level
    THEN Frac(2, 10)
    ELSE FZero

\* "Score por palavras-chave no resumo (10%)"
KeywordTerm(analysis, reqs) ==
    IF reqs.keywords # << >> /\ Truthy(analysis.summary)
    THEN LET Term(summary_lower) ==
                 LET keyword_matches ==
                         Cardinality({ k \in 1..Len(reqs.keywords) :
                                         Contains(summary_lower, Lower(reqs.keywords[k])) })
                 IN  FMul(Frac(keyword_matches, Len(reqs.keywords)), Frac(1, 10))
         IN  Let(Lower(analysis.summary), Term)
    ELSE FZero

ClampScore_max(s) == FMax(s, FOne)

\* min(score, 1.0)
ClampScore(s) == FMin(s, FOne)

\* the four increments of _calculate_match_score
ScoreTerms(analysis, reqs) ==
    [ skills     |-> SkillsTerm(analysis, reqs),
      experience |-> ExperienceTerm(analysis, reqs),
      level      |-> LevelTerm(analysis, reqs),
      keywords   |-> KeywordTerm(analysis, reqs) ]

\* TransformersIntelligenceService._calculate_match_score
\* score = 0.0, the four "score +=", and the final min(score, 1.0)
SumTerms(t) ==
    ClampScore(FAdd(FAdd(FAdd(FAdd(FZero, t.skills), t.experience), t.level), t.keywords))

\* TransformersIntelligenceService._calculate_match_score
calculate_match_score(analysis, reqs) == SumTerms(ScoreTerms(analysis, reqs))

(***************************************************************************)
(* Bounds and inputs                                                       *)
(***************************************************************************)
MaxRawSkills == 2
MaxYears     == 7
NegYears     == 2
ScoreGrid    == 100
ScoreMargin  == 5
MaxRecordYears == 4
MaxQueryYears  == 3

\* every sequence over S of length at most n
SeqsUpTo(S, n) == UNION { [1..k -> S] : k \in 0..n }

\* raw skill strings: case variants, padded, empty and blank entries
RawSkillStrings ==
    { <<"P","y","t","h","o","n">>,
      <<"p","y","t","h","o","n">>,
      <<"P","Y","T","H","O","N">>,
      <<" ","p","y","t","h","o","n"," ">>,
      <<>>,
      <<" ">>,
      <<"G","o">>,
      <<"D","j","a","n","g","o">> }

\* the required skills of a calculation: none, one, two, and a repeated one
RequiredSkillLists ==
    { << >>,
      << <<"p","y","t","h","o","n">> >>,
      << <<"p","y","t","h","o","n">>, <<"g","o">> >>,
      << <<"g","o">>, <<"g","o">> >> }

\* the skills a candidate of a calculation is built from
CandidateSkillStrings == { <<"P","y","t","h","o","n">>, <<"G","o">> }

ValueInputs ==
    { [kind |-> "skills", arg |-> l] : l \in SeqsUpTo(RawSkillStrings, MaxRawSkills) }
    \cup { [kind |-> "years", arg |-> n] : n \in (-NegYears)..MaxYears }
    \cup { [kind |-> "score", arg |-> Frac(n, ScoreGrid)] :
              n \in (-ScoreMargin)..(ScoreGrid + ScoreMargin) }
    \cup { [kind |-> "calculate",
             arg  |-> [required_skills      |-> rs,
                       candidate_skills     |-> TechnicalSkillSetInit(cs),
                       required_experience  |-> re,
                       candidate_experience |-> ce,
                       required_level       |-> rl,
                       candidate_level      |-> cl]] :
              rs \in RequiredSkillLists, cs \in SeqsUpTo(CandidateSkillStrings, MaxRawSkills),
              re \in 0..MaxQueryYears, ce \in 0..MaxRecordYears,
              rl \in ProfessionalLevel, cl \in ProfessionalLevel }

(***************************************************************************)
(* SpecValues: construction of the value objects                           *)
(***************************************************************************)
ValuesOff == vin = None /\ vout = None /\ vpc = "off"
ScoreOff  == /\ sanalysis = None /\ squery = None /\ requirements = None
             /\ terms = None /\ score = None /\ spc = "off"
RankOff   == /\ ranalyses = << >> /\ rquery = None /\ matches = << >>
             /\ analysis_reasoning = None /\ rpc = "off"
ExtractOff ==
    /\ eparts = << >> /\ etext = None /\ efile_name = None /\ eseed = "forward"
    /\ eskills = { } /\ eexperience = 0 /\ elevel = "UNKNOWN" /\ esummary = None
    /\ eeducation = None /\ eanalysis = Null /\ eerror = None /\ epc = "off"

OcrOff == otype = None /\ ocontent = Null /\ oresult = Null /\ opc = "off"
ContainerOff == container = Null /\ cpc = << >> /\ received = << >>

\* TechnicalSkillSet(skills)
NewTechnicalSkillSet ==
    /\ vpc = "new" /\ vin.kind = "skills"
    /\ vout' = TechnicalSkillSetInit(vin.arg)
    /\ vpc' = "built"
    /\ UNCHANGED << vin, scoreVars, rankVars, execVars, extractVars, ocrVars, containerVars >>

\* MatchScore(value)
NewMatchScore ==
    /\ vpc = "new" /\ vin.kind = "score"
    /\ vout' = MatchScoreNew(vin.arg)
    /\ vpc' = "built"
    /\ UNCHANGED << vin, scoreVars, rankVars, execVars, extractVars, ocrVars, containerVars >>

\* MatchScore.calculate(required_skills, candidate_skills, required_experience,
\*                      candidate_experience, required_level, candidate_level)
MatchScoreCalculate ==
    /\ vpc = "new" /\ vin.kind = "calculate"
    /\ vout' = calculate(vin.arg.required_skills, vin.arg.candidate_skills,
                         vin.arg.required_experience, vin.arg.candidate_experience,
                         vin.arg.required_level, vin.arg.candidate_level)
    /\ vpc' = "built"
    /\ UNCHANGED << vin, scoreVars, rankVars, execVars, extractVars, ocrVars, containerVars >>

\* ExperienceYears(years)
NewExperienceYears ==
    /\ vpc = "new" /\ vin.kind = "years"
    /\ vout' = ExperienceYearsNew(vin.arg)
    /\ vpc' = "built"
    /\ UNCHANGED << vin, scoreVars, rankVars, execVars, extractVars, ocrVars, containerVars >>

\* ExperienceYears.get_level_suggestion() on a constructed object
GetLevelSuggestion ==
    /\ vpc = "built" /\ vin.kind = "years" /\ vout.ok
    /\ vout' = [vout EXCEPT !.level = get_level_suggestion(vout.years)]
    /\ vpc' = "suggested"
    /\ UNCHANGED << vin, scoreVars, rankVars, execVars, extractVars, ocrVars, containerVars >>

(***************************************************************************)
(* transformers_service.py: reasons and ranking                            *)
(***************************************************************************)
\* sep.join(parts)
RECURSIVE Join(_, _)
Join(parts, sep) ==
    IF parts = << >> THEN << >>
    ELSE IF Len(parts) = 1 THEN parts[1]
    ELSE parts[1] \o sep \o Join(Tail(parts), sep)

generate_match_reasons_when_required(analysis, reqs) ==
    LET analysis_skills == { Lower(analysis.skills[k]) : k \in 1..Len(analysis.skills) }
        matched_skills  == SelectSeq(reqs.skills, LAMBDA skill : skill \in analysis_skills)
        skill_reason ==
            IF reqs.skills # << >> /\ matched_skills # << >>
            THEN << <<"D","o","m","í","n","i","o"," ","e","m",":"," ">> \o Join(matched_skills, << ",", " " >>) >>
            ELSE << >>
        experience_reason ==
            IF Truthy(analysis.experience_years) /\ reqs.experience_years > 0
            THEN << <<"E","x","p","e","r","i","ê","n","c","i","a",":"," ">> \o analysis.experience_years >>
            ELSE << >>
        level_reason ==
            IF Truthy(analysis.position_level)
            THEN << <<"N","í","v","e","l",":"," ">> \o analysis.position_level >>
            ELSE << >>
        education_reason ==
            IF Truthy(analysis.education)
            THEN << <<"F","o","r","m","a","ç","ã","o",":"," ">> \o analysis.education >>
            ELSE << >>
    IN  skill_reason \o experience_reason \o level_reason \o education_reason

\* TransformersIntelligenceService._generate_match_reasons
generate_match_reasons(analysis, reqs) ==
    LET analysis_skills == { Lower(analysis.skills[k]) : k \in 1..Len(analysis.skills) }
        matched_skills  == SelectSeq(reqs.skills, LAMBDA skill : skill \in analysis_skills)
        skill_reason ==
            IF reqs.skills # << >> /\ matched_skills # << >>
            THEN << <<"D","o","m","í","n","i","o"," ","e","m",":"," ">> \o Join(matched_skills, << ",", " " >>) >>
            ELSE << >>
        experience_reason ==
            IF Truthy(analysis.experience_years)
            THEN << <<"E","x","p","e","r","i","ê","n","c","i","a",":"," ">> \o analysis.experience_years >>
            ELSE << >>
        level_reason ==
            IF Truthy(analysis.position_level)
            THEN << <<"N","í","v","e","l",":"," ">> \o analysis.position_level >>
            ELSE << >>
        education_reason ==
            IF Truthy(analysis.education)
            THEN << <<"F","o","r","m","a","ç","ã","o",":"," ">> \o analysis.education >>
            ELSE << >>
    IN  skill_reason \o experience_reason \o level_reason \o education_reason

\* one entry of best_matches
Match(analysis, reqs) ==
    [ document_id   |-> analysis.document_id,
      score         |-> calculate_match_score(analysis, reqs),
      match_reasons |-> generate_match_reasons(analysis, reqs),
      summary       |-> analysis.summary ]

\* m placed before the first entry that it beats or ties: equal scores end up reversed
InsertByScore_before_ties(m, sorted) ==
    LET n == Cardinality({ k \in 1..Len(sorted) : FLt(m.score, sorted[k].score) })
    IN  SubSeq(sorted, 1, n) \o << m >> \o SubSeq(sorted, n + 1, Len(sorted))

\* m placed after every entry of the sorted list whose score is not lower
InsertByScore(m, sorted) ==
    LET n == Cardinality({ k \in 1..Len(sorted) : FLeq(m.score, sorted[k].score) })
    IN  SubSeq(sorted, 1, n) \o << m >> \o SubSeq(sorted, n + 1, Len(sorted))

\* matches.sort(key=lambda x: x["score"], reverse=True): list.sort is stable, and with
\* reverse=True entries with equal keys keep their original order
RECURSIVE SortByScore(_)
SortByScore(ms) ==
    IF ms = << >> THEN << >>
    ELSE InsertByScore(ms[Len(ms)], SortByScore(SubSeq(ms, 1, Len(ms) - 1)))

\* TransformersIntelligenceService.analyze_query_match: best_matches
analyze_query_match(analysis_list, q) ==
    LET query_requirements == parse_query_requirements(q)
    IN  SortByScore([k \in 1..Len(analysis_list) |-> Match(analysis_list[k], query_requirements)])

\* f"{score:.2f}" of a score from 0 to 1. The float is rounded to the nearest hundredth;
\* when the exact score lies half way between two hundredths the rounding error of the
\* float decides, and both are possible
FormatScore(f) ==
    LET h == (100 * f[1]) \div f[2]
        r == (100 * f[1]) % f[2]
        Str(k) == IntToStr(k \div 100) \o << ".", Digits[((k \div 10) % 10) + 1], Digits[(k % 10) + 1] >>
    IN  IF 2 * r < f[2] THEN { Str(h) }
        ELSE IF 2 * r > f[2] THEN { Str(h + 1) }
        ELSE { Str(h), Str(h + 1) }

generate_analysis_reasoning_second_from_three(ms, q) ==
    IF ms = << >> THEN { << "N", "e", "n", "h", "u", "m", " ", "c", "u", "r", "r", "í", "c", "u", "l", "o", " ", "p", "r", "o", "c", "e", "s", "s", "a", "d", "o", " ", "p", "a", "r", "a", " ", "a", "n", "á", "l", "i", "s", "e", "." >> }
    ELSE { << "B", "a", "s", "e", "a", "d", "o", " ", "n", "a", " ", "a", "n", "á", "l", "i", "s", "e", " ", "d", "a", " ", "q", "u", "e", "r", "y", " ", "'" >> \o q \o << "'", ",", " " >>
             \o << "o", " ", "c", "a", "n", "d", "i", "d", "a", "t", "o", " ", "m", "a", "i", "s", " ", "a", "d", "e", "q", "u", "a", "d", "o", " ", "a", "p", "r", "e", "s", "e", "n", "t", "a", " ", "s", "c", "o", "r", "e", " ", "d", "e", " " >> \o best \o << " " >>
             \o (IF Len(ms) > 2
                 THEN << "O", " ", "s", "e", "g", "u", "n", "d", "o", " ", "c", "o", "l", "o", "c", "a", "d", "o", " ", "t", "e", "m", " ", "s", "c", "o", "r", "e", " " >> \o second \o << ".", " " >>
                 ELSE << >>)
             \o << "R", "e", "c", "o", "m", "e", "n", "d", "a", "ç", "ã", "o", ":", " ", "M", "a", "t", "c", "h", " ", "p", "a", "r", "c", "i", "a", "l", ",", " ", "c", "o", "n", "s", "i", "d", "e", "r", "a", "r", " ", "r", "e", "q", "u", "i", "s", "i", "t", "o", "s", " ", "a", "l", "t", "e", "r", "n", "a", "t", "i", "v", "o", "s", "." >> :
             best \in FormatScore(ms[1].score),
             second \in IF Len(ms) > 1 THEN FormatScore(ms[2].score) ELSE { << >> } }

generate_analysis_reasoning_always_cites(ms, q) ==
    IF ms = << >>
    THEN { << "B", "a", "s", "e", "a", "d", "o", " ", "n", "a", " ", "a", "n", "á", "l", "i", "s", "e", " ", "d", "a", " ", "q", "u", "e", "r", "y", " ", "'" >> \o q \o << "'", ",", " " >>
             \o << "o", " ", "c", "a", "n", "d", "i", "d", "a", "t", "o", " ", "m", "a", "i", "s", " ", "a", "d", "e", "q", "u", "a", "d", "o", " ", "a", "p", "r", "e", "s", "e", "n", "t", "a", " ", "s", "c", "o", "r", "e", " ", "d", "e", " ", "0", ".", "0", "0", " " >>
             \o << "R", "e", "c", "o", "m", "e", "n", "d", "a", "ç", "ã", "o", ":", " ", "M", "a", "t", "c", "h", " ", "p", "a", "r", "c", "i", "a", "l", ",", " ", "c", "o", "n", "s", "i", "d", "e", "r", "a", "r", " ", "r", "e", "q", "u", "i", "s", "i", "t", "o", "s", " ", "a", "l", "t", "e", "r", "n", "a", "t", "i", "v", "o", "s", "." >> }
    ELSE generate_analysis_reasoning_second_from_three(ms, q)

\* TransformersIntelligenceService._generate_analysis_reasoning: the narratives the call
\* can return for the sorted matches ms and the query q
generate_analysis_reasoning(ms, q) ==
    IF ms = << >> THEN { << "N", "e", "n", "h", "u", "m", " ", "c", "u", "r", "r", "í", "c", "u", "l", "o", " ", "p", "r", "o", "c", "e", "s", "s", "a", "d", "o", " ", "p", "a", "r", "a", " ", "a", "n", "á", "l", "i", "s", "e", "." >> }
    ELSE LET best_match == ms[1]
             best_score == best_match.score
         IN  { << "B", "a", "s", "e", "a", "d", "o", " ", "n", "a", " ", "a", "n", "á", "l", "i", "s", "e", " ", "d", "a", " ", "q", "u", "e", "r", "y", " ", "'" >> \o q \o << "'", ",", " " >>
                 \o << "o", " ", "c", "a", "n", "d", "i", "d", "a", "t", "o", " ", "m", "a", "i", "s", " ", "a", "d", "e", "q", "u", "a", "d", "o", " ", "a", "p", "r", "e", "s", "e", "n", "t", "a", " ", "s", "c", "o", "r", "e", " ", "d", "e", " " >> \o best \o << " " >>
                 \o (IF best_match.match_reasons # << >>
                     THEN << "d", "e", "v", "i", "d", "o", " ", "a", ":", " " >> \o Join(best_match.match_reasons, << ";", " " >>)
                              \o << ".", " " >>
                     ELSE << >>)
                 \o (IF Len(ms) > 1
                     THEN << "O", " ", "s", "e", "g", "u", "n", "d", "o", " ", "c", "o", "l", "o", "c", "a", "d", "o", " ", "t", "e", "m", " ", "s", "c", "o", "r", "e", " " >> \o second \o << ".", " " >>
                     ELSE << >>)
                 \o (IF FLeq(Frac(8, 10), best_score)
                     THEN << "R", "e", "c", "o", "m", "e", "n", "d", "a", "ç", "ã", "o", ":", " ", "E", "x", "c", "e", "l", "e", "n", "t", "e", " ", "c", "a", "n", "d", "i", "d", "a", "t", "o", " ", "p", "a", "r", "a", " ", "a", " ", "p", "o", "s", "i", "ç", "ã", "o", "." >>
                     ELSE IF FLeq(Frac(6, 10), best_score)
                     THEN << "R", "e", "c", "o", "m", "e", "n", "d", "a", "ç", "ã", "o", ":", " ", "B", "o", "m", " ", "c", "a", "n", "d", "i", "d", "a", "t", "o", ",", " ", "r", "e", "c", "o", "m", "e", "n", "d", "o", " ", "e", "n", "t", "r", "e", "v", "i", "s", "t", "a", "." >>
                     ELSE IF FLeq(Frac(4, 10), best_score)
                     THEN << "R", "e", "c", "o", "m", "e", "n", "d", "a", "ç", "ã", "o", ":", " ", "C", "a", "n", "d", "i", "d", "a", "t", "o", " ", "a", "d", "e", "q", "u", "a", "d", "o", ",", " ", "a", "v", "a", "l", "i", "a", "r", " ", "o", "u", "t", "r", "o", "s", " ", "f", "a", "t", "o", "r", "e", "s", "." >>
                     ELSE << "R", "e", "c", "o", "m", "e", "n", "d", "a", "ç", "ã", "o", ":", " ", "M", "a", "t", "c", "h", " ", "p", "a", "r", "c", "i", "a", "l", ",", " ", "c", "o", "n", "s", "i", "d", "e", "r", "a", "r", " ", "r", "e", "q", "u", "i", "s", "i", "t", "o", "s", " ", "a", "l", "t", "e", "r", "n", "a", "t", "i", "v", "o", "s", "." >>) :
                 best \in FormatScore(best_score),
                 second \in IF Len(ms) > 1 THEN FormatScore(ms[2].score) ELSE { << >> } }

(***************************************************************************)
(* transformers_service.py and curriculum_values.py: extraction from text  *)
(***************************************************************************)
SearchWord_anywhere(skill, s) == Contains(s, skill)

\* re.search(r'\b' + re.escape(skill) + r'\b', s); \b is the gap between a word
\* character (letter, digit, underscore) and a character that is none, or an end of s
SearchWord(skill, s) ==
    LET IsWordChar(c) == IsLetter(c) \/ IsDigit(c) \/ c = "_"
        WordBoundaryAt(p) ==
            (p > 1 /\ IsWordChar(s[p - 1])) # (p <= Len(s) /\ IsWordChar(s[p]))
    IN  \E p \in 1..Len(s) :
            OccursAt(skill, s, p) /\ WordBoundaryAt(p) /\ WordBoundaryAt(p + Len(skill))

\* TransformersIntelligenceService.extract_skills
extract_skills(text) ==
    LET Found(text_lower) ==
            SelectSeq(technical_skills_patterns,
                      LAMBDA skill : Contains(text_lower, skill) /\ SearchWord(skill, text_lower))
        Titled(found) == [k \in 1..Len(found) |-> Title(found[k])]
    IN  IF ~Truthy(text) THEN TechnicalSkillSetInit(<< >>)
        ELSE TechnicalSkillSetInit(Let(Let(Lower(text), Found), Titled))

\* one element of a pattern at position q of s: the position after it, 0 when it does
\* not match. The elements are a literal, an optional character, \s* and \d+
MatchToken(token, s, q) ==
    CASE token.kind = "lit"    -> IF OccursAt(token.arg, s, q) THEN q + Len(token.arg) ELSE 0
      [] token.kind = "opt"    -> IF q <= Len(s) /\ s[q] = token.arg[1] THEN q + 1 ELSE q
      [] token.kind = "ws"     -> SkipWhitespace(s, q)
      [] token.kind = "digits" -> IF q <= Len(s) /\ IsDigit(s[q])
                                  THEN DigitRunEnd(s, q) + 1 ELSE 0

\* the elements of a pattern matched one after the other from position q
RECURSIVE MatchTokens(_, _, _)
MatchTokens(tokens, s, q) ==
    IF tokens = << >> THEN q
    ELSE LET Rest(n) == IF n = 0 THEN 0 ELSE MatchTokens(Tail(tokens), s, n)
         IN  Let(MatchToken(tokens[1], s, q), Rest)

\* the patterns of ExperienceYears.from_text, in the order they are tried
experience_patterns ==
    << \* r'(\d+)\s*anos?\s*de\s*experiência'
       << [kind |-> "digits", arg |-> << >>],
          [kind |-> "ws", arg |-> << >>],
          [kind |-> "lit", arg |-> << "a", "n", "o" >>],
          [kind |-> "opt", arg |-> << "s" >>],
          [kind |-> "ws", arg |-> << >>],
          [kind |-> "lit", arg |-> << "d", "e" >>],
          [kind |-> "ws", arg |-> << >>],
          [kind |-> "lit", arg |-> << "e", "x", "p", "e", "r", "i", "ê", "n", "c", "i", "a" >>] >>,
       \* r'experiência\s*de\s*(\d+)\s*anos?'
       << [kind |-> "lit", arg |-> << "e", "x", "p", "e", "r", "i", "ê", "n", "c", "i", "a" >>],
          [kind |-> "ws", arg |-> << >>],
          [kind |-> "lit", arg |-> << "d", "e" >>],
          [kind |-> "ws", arg |-> << >>],
          [kind |-> "digits", arg |-> << >>],
          [kind |-> "ws", arg |-> << >>],
          [kind |-> "lit", arg |-> << "a", "n", "o" >>],
          [kind |-> "opt", arg |-> << "s" >>] >>,
       \* r'(\d+)\s*years?\s*of\s*experience'
       << [kind |-> "digits", arg |-> << >>],
          [kind |-> "ws", arg |-> << >>],
          [kind |-> "lit", arg |-> << "y", "e", "a", "r" >>],
          [kind |-> "opt", arg |-> << "s" >>],
          [kind |-> "ws", arg |-> << >>],
          [kind |-> "lit", arg |-> << "o", "f" >>],
          [kind |-> "ws", arg |-> << >>],
          [kind |-> "lit", arg |-> << "e", "x", "p", "e", "r", "i", "e", "n", "c", "e" >>] >>,
       \* r'(\d+)\+\s*anos?'
       << [kind |-> "digits", arg |-> << >>],
          [kind |-> "lit", arg |-> << "+" >>],
          [kind |-> "ws", arg |-> << >>],
          [kind |-> "lit", arg |-> << "a", "n", "o" >>],
          [kind |-> "opt", arg |-> << "s" >>] >> >>

\* re.search(pattern, s): group(1) of the leftmost match, None without a match
SearchPattern(pattern, s) ==
    IF \E p \in 1..Len(s) : MatchTokens(pattern, s, p) > 0
    THEN LET p == CHOOSE k \in 1..Len(s) :
                      MatchTokens(pattern, s, k) > 0
                      /\ \A j \in 1..(k - 1) : MatchTokens(pattern, s, j) = 0
             before_group ==
                 SubSeq(pattern, 1, (CHOOSE k \in 1..Len(pattern) : pattern[k].kind = "digits") - 1)
             g == MatchTokens(before_group, s, p)
         IN  SubSeq(s, g, DigitRunEnd(s, g))
    ELSE None

\* the years of the last pattern that matches
experience_from_text_last_pattern(text) ==
    LET Years(text_lower) ==
            LET Matches(k) == SearchPattern(experience_patterns[k], text_lower) # None
            IN  IF \E k \in 1..Len(experience_patterns) : Matches(k)
                THEN ParseInt(SearchPattern(
                         experience_patterns[CHOOSE k \in 1..Len(experience_patterns) :
                                                 Matches(k) /\ \A j \in (k + 1)..Len(experience_patterns) : ~Matches(j)],
                         text_lower))
                ELSE 0
    IN  IF ~Truthy(text) THEN 0 ELSE Let(Lower(text), Years)

\* ExperienceYears.from_text: the years of the first pattern that matches, 0 without one
experience_from_text(text) ==
    LET Years(text_lower) ==
            LET Matches(k) == SearchPattern(experience_patterns[k], text_lower) # None
            IN  IF \E k \in 1..Len(experience_patterns) : Matches(k)
                THEN ParseInt(SearchPattern(
                         experience_patterns[CHOOSE k \in 1..Len(experience_patterns) :
                                                 Matches(k) /\ \A j \in 1..(k - 1) : ~Matches(j)],
                         text_lower))
                ELSE 0
    IN  IF ~Truthy(text) THEN 0 ELSE Let(Lower(text), Years)

level_from_text_mid_first(text) ==
    IF ~Truthy(text) THEN "UNKNOWN"
    ELSE LET Level(text_lower) ==
                 IF Contains(text_lower, << "p", "l", "e", "n", "o" >>) THEN "PLENO"
                 ELSE IF AnyIn(<< << "s", "e", "n", "i", "o", "r" >>, << "s", "ê", "n", "i", "o", "r" >>, << "l", "e", "a", "d" >>, << "l", "í", "d", "e", "r" >>, << "a", "r", "q", "u", "i", "t", "e", "t", "o" >> >>, text_lower) THEN "SENIOR"
                 ELSE IF AnyIn(<< << "j", "u", "n", "i", "o", "r" >>, << "j", "ú", "n", "i", "o", "r" >>, << "t", "r", "a", "i", "n", "e", "e" >>, << "e", "s", "t", "a", "g", "i", "á", "r", "i", "o" >> >>, text_lower) THEN "JUNIOR"
                 ELSE IF Contains(text_lower, << "e", "s", "p", "e", "c", "i", "a", "l", "i", "s", "t", "a" >>) THEN "ESPECIALISTA"
                 ELSE "UNKNOWN"
         IN  Let(Lower(text), Level)

\* ProfessionalLevel.from_text
level_from_text(text) ==
    IF ~Truthy(text) THEN "UNKNOWN"
    ELSE LET Level(text_lower) ==
                 IF AnyIn(<< << "s", "e", "n", "i", "o", "r" >>, << "s", "ê", "n", "i", "o", "r" >>, << "l", "e", "a", "d" >>, << "l", "í", "d", "e", "r" >>, << "a", "r", "q", "u", "i", "t", "e", "t", "o" >> >>, text_lower) THEN "SENIOR"
                 ELSE IF AnyIn(<< << "j", "u", "n", "i", "o", "r" >>, << "j", "ú", "n", "i", "o", "r" >>, << "t", "r", "a", "i", "n", "e", "e" >>, << "e", "s", "t", "a", "g", "i", "á", "r", "i", "o" >> >>, text_lower) THEN "JUNIOR"
                 ELSE IF Contains(text_lower, << "p", "l", "e", "n", "o" >>) THEN "PLENO"
                 ELSE IF Contains(text_lower, << "e", "s", "p", "e", "c", "i", "a", "l", "i", "s", "t", "a" >>) THEN "ESPECIALISTA"
                 ELSE "UNKNOWN"
         IN  Let(Lower(text), Level)

determine_level_experience_first(text, skills, years) ==
    LET level_from_experience == get_level_suggestion(years)
        skill_count == Cardinality(skills)
        Level(from_text) ==
            IF level_from_experience # "UNKNOWN" THEN level_from_experience
            ELSE IF from_text # "UNKNOWN" THEN from_text
            ELSE IF skill_count >= 10 THEN "SENIOR"
            ELSE IF skill_count >= 5 THEN "PLENO"
            ELSE IF skill_count > 0 THEN "JUNIOR"
            ELSE "UNKNOWN"
    IN  Let(level_from_text(text), Level)

\* TransformersIntelligenceService.determine_level; skills is the skill set and years
\* the years of the experience
determine_level(text, skills, years) ==
    LET level_from_experience == get_level_suggestion(years)
        skill_count == Cardinality(skills)
        Level(from_text) ==
            IF from_text # "UNKNOWN" THEN from_text
            ELSE IF level_from_experience # "UNKNOWN" THEN level_from_experience
            ELSE IF skill_count >= 10 THEN "SENIOR"
            ELSE IF skill_count >= 5 THEN "PLENO"
            ELSE IF skill_count > 0 THEN "JUNIOR"
            ELSE "UNKNOWN"
    IN  Let(level_from_text(text), Level)

\* the hash seed of the process decides the order in which a set of strings is iterated;
\* the model distinguishes two of the orders
HashSeeds == { "forward", "backward" }

\* the slice s[:n]
Prefix(s, n) == SubSeq(s, 1, IF Len(s) < n THEN Len(s) ELSE n)

\* list(members): the members of a set in the order of the seed, where listed holds
\* them in a reference order
SetOrder(listed, members, seed) ==
    LET kept == SelectSeq(listed, LAMBDA x : x \in members)
        once == SelectSeq([k \in 1..Len(kept) |-> [at |-> k, x |-> kept[k]]],
                          LAMBDA e : \A j \in 1..(e.at - 1) : kept[j] # e.x)
    IN  [k \in 1..Len(once) |->
            IF seed = "forward" THEN once[k].x ELSE once[Len(once) + 1 - k].x]

\* TechnicalSkillSet.count
count(skills) == Cardinality(skills)

\* TechnicalSkillSet.to_list of an extracted skill set
to_list(skills, seed) ==
    SetOrder([k \in 1..Len(technical_skills_patterns) |-> Title(technical_skills_patterns[k])],
             { s.name : s \in skills }, seed)

\* text.split('\n')
RECURSIVE SplitLines(_)
SplitLines(s) ==
    IF \A k \in 1..Len(s) : s[k] # "\n" THEN << s >>
    ELSE LET b == CHOOSE k \in 1..Len(s) : s[k] = "\n" /\ \A j \in 1..(k - 1) : s[j] # "\n"
         IN  << SubSeq(s, 1, b - 1) >> \o SplitLines(SubSeq(s, b + 1, Len(s)))

\* TransformersIntelligenceService._extract_education
extract_education(text, seed) ==
    LET education_keywords ==
            << << "b", "a", "c", "h", "a", "r", "e", "l", "a", "d", "o" >>,
               << "b", "a", "c", "h", "a", "r", "e", "l" >>,
               << "g", "r", "a", "d", "u", "a", "ç", "ã", "o" >>,
               << "g", "r", "a", "d", "u", "a", "d", "o" >>,
               << "m", "e", "s", "t", "r", "a", "d", "o" >>,
               << "m", "e", "s", "t", "r", "e" >>,
               << "d", "o", "u", "t", "o", "r", "a", "d", "o" >>,
               << "d", "o", "u", "t", "o", "r" >>,
               << "p", "h", "d" >>,
               << "t", "é", "c", "n", "i", "c", "o" >>,
               << "t", "e", "c", "n", "ó", "l", "o", "g", "o" >>,
               << "s", "u", "p", "e", "r", "i", "o", "r" >>,
               << "u", "n", "i", "v", "e", "r", "s", "i", "d", "a", "d", "e" >>,
               << "f", "a", "c", "u", "l", "d", "a", "d", "e" >>,
               << "i", "n", "s", "t", "i", "t", "u", "t", "o" >>,
               << "e", "n", "g", "e", "n", "h", "a", "r", "i", "a" >>,
               << "c", "i", "ê", "n", "c", "i", "a", " ", "d", "a", " ", "c", "o", "m", "p", "u", "t", "a", "ç", "ã", "o" >>,
               << "s", "i", "s", "t", "e", "m", "a", "s", " ", "d", "e", " ", "i", "n", "f", "o", "r", "m", "a", "ç", "ã", "o" >>,
               << "a", "n", "á", "l", "i", "s", "e", " ", "d", "e", " ", "s", "i", "s", "t", "e", "m", "a", "s" >> >>
        Found(text_lower) ==
            SelectSeq(education_keywords, LAMBDA keyword : Contains(text_lower, keyword))
        Listed(found) ==
            IF found = << >> THEN None
            ELSE LET found_education == [k \in 1..Len(found) |-> Title(found[k])]
                     ordered == SetOrder(found_education,
                                         { found_education[k] : k \in 1..Len(found) }, seed)
                 IN  Join(Prefix(ordered, 3), << ",", " " >>)
    IN  Let(Let(Lower(text), Found), Listed)

\* TransformersIntelligenceService._extract_candidate_name
extract_candidate_name(text) ==
    LET not_name_words ==
            << << "c", "v" >>,
               << "c", "u", "r", "r", "i", "c", "u", "l", "u", "m" >>,
               << "r", "e", "s", "u", "m", "o" >>,
               << "e", "m", "a", "i", "l" >>,
               << "@" >> >>
        IsLikelyName(line) ==
            /\ 2 <= Len(Split(line)) /\ Len(Split(line)) <= 4
            /\ Len(line) < 50
            /\ ~\E k \in 1..Len(line) : IsDigit(line[k])
            /\ ~AnyIn(not_name_words, Lower(line))
        Name(lines) ==
            IF \E k \in 1..Len(lines) : IsLikelyName(lines[k])
            THEN lines[CHOOSE k \in 1..Len(lines) :
                           IsLikelyName(lines[k]) /\ \A j \in 1..(k - 1) : ~IsLikelyName(lines[j])]
            ELSE None
        Stripped(all) == [k \in 1..Len(Prefix(all, 5)) |-> Strip(all[k])]
    IN  Let(Let(SplitLines(text), Stripped), Name)

\* TransformersIntelligenceService._identify_work_area
identify_work_area(text) ==
    LET areas ==
            << [area |-> << "D", "e", "s", "e", "n", "v", "o", "l", "v", "i", "m", "e", "n", "t", "o", " ", "d", "e", " ", "S", "o", "f", "t", "w", "a", "r", "e" >>,
                keywords |-> << << "d", "e", "s", "e", "n", "v", "o", "l", "v", "e", "d", "o", "r" >>,
                             << "p", "r", "o", "g", "r", "a", "m", "a", "d", "o", "r" >>,
                             << "s", "o", "f", "t", "w", "a", "r", "e" >>,
                             << "f", "r", "o", "n", "t", "e", "n", "d" >>,
                             << "b", "a", "c", "k", "e", "n", "d" >> >>],
               [area |-> << "C", "i", "ê", "n", "c", "i", "a", " ", "d", "e", " ", "D", "a", "d", "o", "s" >>,
                keywords |-> << << "d", "a", "d", "o", "s" >>,
                             << "d", "a", "t", "a" >>,
                             << "a", "n", "a", "l", "y", "t", "i", "c", "s" >>,
                             << "s", "c", "i", "e", "n", "t", "i", "s", "t" >>,
                             << "a", "n", "a", "l", "y", "s", "t" >> >>],
               [area |-> << "D", "e", "v", "O", "p", "s", "/", "I", "n", "f", "r", "a", "e", "s", "t", "r", "u", "t", "u", "r", "a" >>,
                keywords |-> << << "d", "e", "v", "o", "p", "s" >>,
                             << "i", "n", "f", "r", "a", "e", "s", "t", "r", "u", "t", "u", "r", "a" >>,
                             << "c", "l", "o", "u", "d" >>,
                             << "s", "y", "s", "a", "d", "m", "i", "n" >>,
                             << "s", "r", "e" >> >>],
               [area |-> << "M", "o", "b", "i", "l", "e" >>,
                keywords |-> << << "m", "o", "b", "i", "l", "e" >>,
                             << "a", "n", "d", "r", "o", "i", "d" >>,
                             << "i", "o", "s" >>,
                             << "a", "p", "p" >>,
                             << "a", "p", "l", "i", "c", "a", "t", "i", "v", "o" >> >>],
               [area |-> << "U", "I", "/", "U", "X" >>,
                keywords |-> << << "d", "e", "s", "i", "g", "n", "e", "r" >>,
                             << "u", "i" >>,
                             << "u", "x" >>,
                             << "d", "e", "s", "i", "g", "n" >>,
                             << "i", "n", "t", "e", "r", "f", "a", "c", "e" >> >>] >>
        Area(text_lower) ==
            IF \E k \in 1..Len(areas) : AnyIn(areas[k].keywords, text_lower)
            THEN areas[CHOOSE k \in 1..Len(areas) :
                           /\ AnyIn(areas[k].keywords, text_lower)
                           /\ \A j \in 1..(k - 1) : ~AnyIn(areas[j].keywords, text_lower)].area
            ELSE None
    IN  Let(Lower(text), Area)

\* TransformersIntelligenceService.generate_summary; a text of None has no strip()
generate_summary(text, file_name, seed) ==
    LET skills == extract_skills(text)
        years == experience_from_text(text)
        level == determine_level(text, skills, years)
        education == extract_education(text, seed)
        candidate_name == extract_candidate_name(text)
        area == identify_work_area(text)
        summary_parts ==
            (IF Truthy(candidate_name)
             THEN << << "P", "e", "r", "f", "i", "l", " ", "d", "e", " " >> \o candidate_name \o << ":" >> >>
             ELSE << << "P", "e", "r", "f", "i", "l", " ", "d", "o", " ", "c", "a", "n", "d", "i", "d", "a", "t", "o", ":" >> >>)
            \o (IF level # "UNKNOWN"
                THEN << << "P", "r", "o", "f", "i", "s", "s", "i", "o", "n", "a", "l", " ", "d", "e", " ", "n", "í", "v", "e", "l", " " >> \o LevelValue(level) >>
                ELSE << >>)
            \o (IF count(skills) > 0
                THEN << << "c", "o", "m", " ", "e", "x", "p", "e", "r", "i", "ê", "n", "c", "i", "a", " ", "e", "m", " " >>
                          \o Join(Prefix(to_list(skills, seed), 5), << ",", " " >>) >>
                     \o (IF count(skills) > 5
                         THEN << << "e", " ", "o", "u", "t", "r", "a", "s", " " >> \o IntToStr(count(skills) - 5)
                                   \o << " ", "t", "e", "c", "n", "o", "l", "o", "g", "i", "a", "s" >> >>
                         ELSE << >>)
                ELSE << >>)
            \o (IF years > 0
                THEN << << "(" >> \o ExperienceStr(years) \o << " ", "d", "e", " ", "e", "x", "p", "e", "r", "i", "ê", "n", "c", "i", "a", ")" >> >>
                ELSE << >>)
            \o (IF Truthy(education) THEN << << "F", "o", "r", "m", "a", "ç", "ã", "o", ":", " " >> \o education >> ELSE << >>)
            \o (IF Truthy(area) THEN << << "Á", "r", "e", "a", ":", " " >> \o area >> ELSE << >>)
    IN  IF text = None THEN [ok |-> FALSE, error |-> "AttributeError", value |-> None]
        ELSE IF Strip(text) = << >>
        THEN [ok |-> TRUE, error |-> None,
              value |-> << "N", "ã", "o", " ", "f", "o", "i", " ", "p", "o", "s", "s", "í", "v", "e", "l", " ", "e", "x", "t", "r", "a", "i", "r", " ", "t", "e", "x", "t", "o", " ", "s", "i", "g", "n", "i", "f", "i", "c", "a", "t", "i", "v", "o", " ", "d", "e", " " >> \o file_name]
        ELSE [ok |-> TRUE, error |-> None,
              value |-> Join(summary_parts, << ".", " " >>) \o << "." >>]

(***************************************************************************)
(* SpecScore: one analysis scored against one query                        *)
(***************************************************************************)

\* the query of the end-to-end example
ExampleQuery == <<"P","y","t","h","o","n"," ","s","e","n","i","o","r"," ","3"," ","a","n","o","s">>

SummaryA ==
    <<"P","e","r","f","i","l"," ","d","o"," ","c","a","n","d","i","d","a","t","o",":","."," ","P","r","o","f","i","s","s","i","o","n","a","l"," ","d","e"," ","n","í","v","e","l"," ","S","ê","n","i","o","r","."," ","c","o","m"," ","e","x","p","e","r","i","ê","n","c","i","a"," ","e","m"," ","P","y","t","h","o","n","."," ","(","4"," ","a","n","o","s"," ","d","e"," ","e","x","p","e","r","i","ê","n","c","i","a",")",".">>
SummaryB ==
    <<"P","e","r","f","i","l"," ","d","o"," ","c","a","n","d","i","d","a","t","o",":","."," ","P","r","o","f","i","s","s","i","o","n","a","l"," ","d","e"," ","n","í","v","e","l"," ","J","ú","n","i","o","r","."," ","c","o","m"," ","e","x","p","e","r","i","ê","n","c","i","a"," ","e","m"," ","J","a","v","a","."," ","(","1"," ","a","n","o","s"," ","d","e"," ","e","x","p","e","r","i","ê","n","c","i","a",")",".">>

\* the two profiles of the end-to-end example, as analyze_curriculum stores them
ProfileA(id, document_id) ==
    CurriculumAnalysis(id, document_id, SummaryA, << <<"P","y","t","h","o","n">> >>,
                       ExperienceStr(4), LevelValue("SENIOR"), None)
ProfileB(id, document_id) ==
    CurriculumAnalysis(id, document_id, SummaryB, << <<"J","a","v","a">> >>,
                       ExperienceStr(1), LevelValue("JUNIOR"), None)
\* a Mid profile with an education, as analyze_curriculum stores it
SummaryP ==
    <<"P","e","r","f","i","l"," ","d","o"," ","c","a","n","d","i","d","a","t","o",":","."," ","P","r","o","f","i","s","s","i","o","n","a","l"," ","d","e"," ","n","í","v","e","l"," ","P","l","e","n","o","."," ","c","o","m"," ","e","x","p","e","r","i","ê","n","c","i","a"," ","e","m"," ","P","y","t","h","o","n","."," ","(","2"," ","a","n","o","s"," ","d","e"," ","e","x","p","e","r","i","ê","n","c","i","a",")","."," ","F","o","r","m","a","ç","ã","o",":"," ","B","a","c","h","a","r","e","l","a","d","o",".">>
ProfileP(id, document_id) ==
    CurriculumAnalysis(id, document_id, SummaryP, << <<"P","y","t","h","o","n">> >>,
                       ExperienceStr(2), LevelValue("PLENO"), <<"B","a","c","h","a","r","e","l","a","d","o">>)
\* a profile with no extracted fact
ProfileN(id, document_id) ==
    CurriculumAnalysis(id, document_id, << >>, << >>, None, None, None)

\* position_level is the value of a level other than UNKNOWN, or None
StoredLevels == { LevelValue(l) : l \in ProfessionalLevel \ { "UNKNOWN" } } \cup { None }
\* experience_years is str(ExperienceYears) for years > 0, or None
StoredExperience == { ExperienceStr(y) : y \in 1..MaxRecordYears } \cup { None }

\* summary and skills of the scored analysis: nothing extracted, or the summary of
\* profile A with one or two skills
ScoreContents ==
    { [summary |-> << >>, skills |-> << >>],
      [summary |-> SummaryA, skills |-> << <<"P","y","t","h","o","n">> >>],
      [summary |-> SummaryA, skills |-> << <<"P","y","t","h","o","n">>, <<"R">> >>] }

ScoreAnalyses ==
    { CurriculumAnalysis(1, << "d", "1" >>, k.summary, k.skills, e, l, None) :
        k \in ScoreContents, e \in StoredExperience, l \in StoredLevels }

QuerySkillParts == { << >>, <<"p","y","t","h","o","n"," ">>, <<"j","a","v","a"," ","g","o"," ">> }
QueryLevelParts ==
    { << >>, <<"s","e","n","i","o","r"," ">>, <<"j","ú","n","i","o","r"," ">>,
      <<"P","l","e","n","o"," ">>, <<"e","s","p","e","c","i","a","l","i","s","t","a"," ">>,
      <<"l","e","a","d"," ">> }
QueryYearParts ==
    { << >>, <<"3","+"," ","a","n","o","s">> }
    \cup { IntToStr(r) \o <<" ","a","n","o","s">> : r \in 0..MaxQueryYears }

ScoreQueries ==
    { a \o b \o c : a \in QuerySkillParts, b \in QueryLevelParts, c \in QueryYearParts }
    \cup { ExampleQuery }

\* query_requirements = self._parse_query_requirements(query)
ParseQuery ==
    /\ spc = "start"
    /\ requirements' = parse_query_requirements(squery)
    /\ spc' = "parsed"
    /\ UNCHANGED << sanalysis, squery, terms, score, valueVars, rankVars, execVars, extractVars, ocrVars, containerVars >>

\* score = self._calculate_match_score(analysis, query_requirements)
CalculateMatchScore ==
    /\ spc = "parsed"
    /\ terms' = ScoreTerms(sanalysis, requirements)
    /\ score' = SumTerms(terms')
    /\ spc' = "scored"
    /\ UNCHANGED << sanalysis, squery, requirements, valueVars, rankVars, execVars, extractVars, ocrVars, containerVars >>

(***************************************************************************)
(* SpecRank: analyze_query_match over a list of analyses                   *)
(***************************************************************************)
MaxAnalyses == 3

DocId(k) == << "d" >> \o IntToStr(k)

RankProfileKinds == { "A", "B", "P", "N" }
RankProfile(kind, id, document_id) ==
    CASE kind = "A" -> ProfileA(id, document_id)
      [] kind = "B" -> ProfileB(id, document_id)
      [] kind = "P" -> ProfileP(id, document_id)
      [] kind = "N" -> ProfileN(id, document_id)

\* the lists of analyses: the k-th analysis belongs to document DocId(k)
RankLists ==
    { [k \in 1..Len(kinds) |-> RankProfile(kinds[k], k, DocId(k))] :
        kinds \in SeqsUpTo(RankProfileKinds, MaxAnalyses) }

RankQueries ==
    { ExampleQuery, <<"j","a","v","a">>, <<"p","y","t","h","o","n"," ","p","l","e","n","o"," ","2"," ","a","n","o","s">>, << >> }

\* analyze_query_match(analyses, query)
AnalyzeQueryMatch ==
    /\ rpc = "start"
    /\ \E best_matches \in { analyze_query_match(ranalyses, rquery) } :
           /\ matches' = best_matches
           /\ analysis_reasoning' \in generate_analysis_reasoning(best_matches, rquery)
    /\ rpc' = "ranked"
    /\ UNCHANGED << ranalyses, rquery, valueVars, scoreVars, execVars, extractVars, ocrVars, containerVars >>

(***************************************************************************)
(* Spec: AnalyzeCurriculumsUseCase.execute over the repository             *)
(***************************************************************************)
NumDocs     == 3
MaxBatch    == 2
NumCalls    == 2
MaxFailures == 3

Calls      == 1..NumCalls
ExecDocIds == { DocId(k) : k \in 1..NumDocs }
\* the documents collection: a document id is absent, or holds a document that is
\* unprocessed (no extracted text yet) or processed
DocStates == << "unprocessed", "processed", "absent" >>
\* the collection the runs start from: d1 unprocessed, d2 processed, d3 absent, ...
StoredDocuments == [ d \in ExecDocIds |->
    DocStates[(((CHOOSE k \in 1..NumDocs : DocId(k) = d) - 1) % Len(DocStates)) + 1] ]
ExecQueries == { None, ExampleQuery }

Finished(c) == pc[c] \in { "returned", "raised" }
\* no later call has started: the locals of call c are still those of its run
Current(c) == \A o \in Calls : o > c => pc[o] = "idle"

\* ProcessingAudit.create_success / create_error, as save_audit stores them
ProcessingAudit(action, document_id, success, error_message) ==
    [action |-> action, document_id |-> document_id, success |-> success,
     error_message |-> error_message]

\* AnalysisExecutionResult
AnalysisExecutionResult(as, matching_results, success, error_message) ==
    [analyses |-> as, matching_results |-> matching_results,
     success |-> success, error_message |-> error_message]

\* the document id of the current iteration of the for loop
doc_id(c) == document_ids[c][idx[c]]

\* a lookup that reads the first stored analysis only
get_analysis_by_document_first_only(d) ==
    IF analyses_collection # << >> /\ analyses_collection[1].document_id = d
    THEN analyses_collection[1]
    ELSE Null

\* analyses_collection.find_one({"document_id": d}): the first stored analysis of d
get_analysis_by_document(d) ==
    IF \E k \in 1..Len(analyses_collection) : analyses_collection[k].document_id = d
    THEN analyses_collection[
             CHOOSE k \in 1..Len(analyses_collection) :
                 /\ analyses_collection[k].document_id = d
                 /\ \A j \in 1..(k - 1) : analyses_collection[j].document_id # d ]
    ELSE Null

\* intelligence_service.analyze_curriculum(document): the analysis of the text of the
\* document; document d1 holds the text of profile A, every other one that of profile B.
\* id is the fresh uuid of the analysis
analyze_curriculum(d, id) ==
    IF d = DocId(1) THEN ProfileA(<< "a" >> \o IntToStr(id), d)
    ELSE ProfileB(<< "a" >> \o IntToStr(id), d)

\* a stored analysis: the collections and the lists of a run hold the id and the
\* document id of an analysis, its other fields are those analyze_curriculum gave it
StoredAnalysis(d, id) == [id |-> id, document_id |-> d]
AnalysisOf(a) == analyze_curriculum(a.document_id, a.id)

\* the for loop goes on to the next document id, or leaves the loop
Continue(c) ==
    /\ idx' = [idx EXCEPT ![c] = idx[c] + 1]
    /\ pc' = [pc EXCEPT ![c] = IF idx[c] + 1 <= Len(document_ids[c])
                               THEN "get_document" ELSE "finish"]

\* an awaited call raises: at most MaxFailures calls raise in a run
Fails ==
    /\ failures < MaxFailures
    /\ failures' = failures + 1

\* an awaited call raised inside the per-document try: control goes to its except clause;
\* message is str(e), a one-element sequence naming the call that raised
Raise(c, message) ==
    /\ Fails
    /\ error' = [error EXCEPT ![c] = message]
    /\ pc' = [pc EXCEPT ![c] = "except_document"]
    /\ UNCHANGED idx

\* execute(document_ids, query) is called; calls run one after the other. The locals
\* of the calls that have returned are gone; their results stay with the caller
StartExecute(c) ==
    /\ pc[c] = "idle"
    /\ \A o \in Calls : o < c => Finished(o)
    /\ \A o \in Calls : o > c => pc[o] = "idle"
    /\ \E ids \in SeqsUpTo(ExecDocIds, MaxBatch), q \in ExecQueries :
          /\ document_ids' = [o \in Calls |-> IF o = c THEN ids ELSE << >>]
          /\ query' = [o \in Calls |-> IF o = c THEN q ELSE None]
          /\ pc' = [pc EXCEPT ![c] = IF ids # << >> THEN "get_document" ELSE "finish"]
    /\ idx' = [o \in Calls |-> 1]
    /\ analyses' = [o \in Calls |-> << >>]
    /\ document' = [o \in Calls |-> Null]
    /\ error' = [o \in Calls |-> None]
    /\ UNCHANGED << documents, analyses_collection, audits_collection,
                    result, next_id, failures,
                    valueVars, scoreVars, rankVars, extractVars, ocrVars, containerVars >>

\* document = await self.repository.get_document(doc_id)
GetDocument(c) ==
    /\ pc[c] = "get_document"
    /\ \/ /\ Raise(c, << "get_document" >>)
          /\ UNCHANGED << document, analyses >>
       \/ /\ documents[doc_id(c)] = "absent"
          /\ Continue(c)
          /\ UNCHANGED << document, analyses, error, failures >>
       \/ /\ documents[doc_id(c)] # "absent"
          /\ document' = [document EXCEPT ![c] =
                 [id |-> doc_id(c), processed |-> documents[doc_id(c)] = "processed"]]
          /\ pc' = [pc EXCEPT ![c] = "get_analysis"]
          /\ UNCHANGED << idx, analyses, error, failures >>
    /\ UNCHANGED << documents, analyses_collection, audits_collection,
                    document_ids, query, result, next_id,
                    valueVars, scoreVars, rankVars, extractVars, ocrVars, containerVars >>

\* existing_analysis = await self.repository.get_analysis_by_document(doc_id)
GetAnalysisByDocument(c) ==
    /\ pc[c] = "get_analysis"
    /\ \/ /\ Raise(c, << "get_analysis_by_document" >>)
          /\ UNCHANGED analyses
       \/ /\ get_analysis_by_document(doc_id(c)) # Null
          /\ analyses' = [analyses EXCEPT ![c] = Append(@, get_analysis_by_document(doc_id(c)))]
          /\ Continue(c)
          /\ UNCHANGED << error, failures >>
       \/ /\ get_analysis_by_document(doc_id(c)) = Null
          /\ pc' = [pc EXCEPT ![c] = IF document[c].processed
                                     THEN "save_analysis" ELSE "extract"]
          /\ UNCHANGED << idx, analyses, error, failures >>
    /\ UNCHANGED << documents, analyses_collection, audits_collection,
                    document_ids, query, document, result, next_id,
                    valueVars, scoreVars, rankVars, extractVars, ocrVars, containerVars >>

\* text = await self.text_extraction_service.extract_from_bytes(b"", document.file_type)
\* and document.mark_as_processed(text)
ExtractFromBytes(c) ==
    /\ pc[c] = "extract"
    /\ \/ /\ Raise(c, << "extract_from_bytes" >>)
          /\ UNCHANGED document
       \/ /\ document' = [document EXCEPT ![c].processed = TRUE]
          /\ pc' = [pc EXCEPT ![c] = "update_document"]
          /\ UNCHANGED << idx, error, failures >>
    /\ UNCHANGED << documents, analyses_collection, audits_collection,
                    document_ids, query, analyses, result, next_id,
                    valueVars, scoreVars, rankVars, extractVars, ocrVars, containerVars >>

\* await self.repository.update_document(document)
UpdateDocument(c) ==
    /\ pc[c] = "update_document"
    /\ \/ /\ Raise(c, << "update_document" >>)
          /\ UNCHANGED documents
       \/ /\ documents' = [documents EXCEPT ![doc_id(c)] =
                              IF @ = "absent" THEN @ ELSE "processed"]
          /\ pc' = [pc EXCEPT ![c] = "save_analysis"]
          /\ UNCHANGED << idx, error, failures >>
    /\ UNCHANGED << analyses_collection, audits_collection,
                    document_ids, query, analyses, document, result, next_id,
                    valueVars, scoreVars, rankVars, extractVars, ocrVars, containerVars >>

\* analysis = self.intelligence_service.analyze_curriculum(document);
\* await self.repository.save_analysis(analysis); analyses.append(analysis)
SaveAnalysis(c) ==
    /\ pc[c] = "save_analysis"
    /\ \/ /\ Raise(c, << "save_analysis" >>)
          /\ UNCHANGED << analyses_collection, analyses, next_id >>
       \/ /\ analyses_collection' =
                 Append(analyses_collection, StoredAnalysis(doc_id(c), next_id))
          /\ analyses' = [analyses EXCEPT ![c] =
                             Append(@, StoredAnalysis(doc_id(c), next_id))]
          /\ next_id' = next_id + 1
          /\ pc' = [pc EXCEPT ![c] = "save_audit"]
          /\ UNCHANGED << idx, error, failures >>
    /\ UNCHANGED << documents, audits_collection,
                    document_ids, query, document, result,
                    valueVars, scoreVars, rankVars, extractVars, ocrVars, containerVars >>

\* audit = ProcessingAudit.create_success("document_analysis", doc_id);
\* await self.repository.save_audit(audit)
SaveAuditSuccess(c) ==
    /\ pc[c] = "save_audit"
    /\ \/ /\ Raise(c, << "save_audit" >>)
          /\ UNCHANGED audits_collection
       \/ /\ audits_collection' = Append(audits_collection,
                 ProcessingAudit("document_analysis", doc_id(c), TRUE, None))
          /\ Continue(c)
          /\ UNCHANGED << error, failures >>
    /\ UNCHANGED << documents, analyses_collection,
                    document_ids, query, analyses, document, result, next_id,
                    valueVars, scoreVars, rankVars, extractVars, ocrVars, containerVars >>

\* except Exception as e: the error audit of the document is saved and the loop goes on;
\* when save_audit raises here, the exception leaves the for loop for the outer except
ExceptDocument(c) ==
    /\ pc[c] = "except_document"
    /\ \/ /\ Fails
          /\ error' = [error EXCEPT ![c] = << "save_audit" >>]
          /\ pc' = [pc EXCEPT ![c] = "except_batch"]
          /\ UNCHANGED << audits_collection, idx >>
       \/ /\ audits_collection' = Append(audits_collection,
                 ProcessingAudit("document_analysis", doc_id(c), FALSE, error[c]))
          /\ Continue(c)
          /\ UNCHANGED << error, failures >>
    /\ UNCHANGED << documents, analyses_collection,
                    document_ids, query, analyses, document, result, next_id,
                    valueVars, scoreVars, rankVars, extractVars, ocrVars, containerVars >>

\* analyze_query_match over the analyses of the documents ds, in that order, for each
\* query of the runs; of a match the result keeps the document id and the score, and
\* analysis_reasoning holds the narratives the formatting of the scores can give. The
\* matching reads no id of an analysis, so it is tabulated by document ids
MatchingResults ==
    { Let(analyze_query_match([k \in 1..Len(r.ds) |-> analyze_curriculum(r.ds[k], 0)], r.q),
          LAMBDA ms : [ document_ids |-> r.ds, query |-> r.q,
                        best_matches |-> [k \in 1..Len(ms) |->
                            [document_id |-> ms[k].document_id, score |-> ms[k].score]],
                        analysis_reasoning |-> generate_analysis_reasoning(ms, r.q) ]) :
      r \in { [ds |-> ds, q |-> q] :
                  ds \in SeqsUpTo(ExecDocIds, MaxBatch), q \in ExecQueries \ { None } } }

\* the results analyze_query_match(as, q) can return
BestMatches(as, q) ==
    LET r == CHOOSE r \in MatchingResults :
                 /\ r.document_ids = [k \in 1..Len(as) |-> as[k].document_id]
                 /\ r.query = q
    IN  { [ query |-> q, best_matches |-> r.best_matches, analysis_reasoning |-> reasoning ] :
            reasoning \in r.analysis_reasoning }

\* after the loop: the matching when a query and analyses are there, and the result
Finish(c) ==
    /\ pc[c] = "finish"
    /\ \E matching_results \in (IF Truthy(query[c]) /\ analyses[c] # << >>
                                 THEN BestMatches(analyses[c], query[c])
                                 ELSE { Null }) :
           result' = [result EXCEPT ![c] =
               AnalysisExecutionResult(analyses[c], matching_results, TRUE, None)]
    /\ pc' = [pc EXCEPT ![c] = "returned"]
    /\ UNCHANGED << documents, analyses_collection, audits_collection,
                    document_ids, query, idx, analyses, document, error, next_id, failures,
                    valueVars, scoreVars, rankVars, extractVars, ocrVars, containerVars >>

\* the outer except: the batch error audit is saved and a failed result returned;
\* when save_audit raises here, the exception reaches the caller
ExceptBatch(c) ==
    /\ pc[c] = "except_batch"
    /\ \/ /\ Fails
          /\ pc' = [pc EXCEPT ![c] = "raised"]
          /\ UNCHANGED << audits_collection, result >>
       \/ /\ audits_collection' = Append(audits_collection,
                 ProcessingAudit("batch_analysis", None, FALSE, error[c]))
          /\ result' = [result EXCEPT ![c] =
                 AnalysisExecutionResult(<< >>, Null, FALSE, error[c])]
          /\ pc' = [pc EXCEPT ![c] = "returned"]
          /\ UNCHANGED failures
    /\ UNCHANGED << documents, analyses_collection,
                    document_ids, query, idx, analyses, document, error, next_id,
                    valueVars, scoreVars, rankVars, extractVars, ocrVars, containerVars >>

\* analyze_query of the API, after `result = await use_case.execute(...)`: the response
\* is built with result.matching_results.get(...); on None the attribute access raises
\* and the except clause answers with HTTPException(status_code=500)
QueryAnalysisResponse(r) ==
    IF r.matching_results = Null
    THEN [status_code |-> 500, best_matches |-> None, analysis_reasoning |-> None]
    ELSE [status_code |-> 200, best_matches |-> r.matching_results.best_matches,
          analysis_reasoning |-> r.matching_results.analysis_reasoning]

ExecOff ==
    /\ documents = [d \in ExecDocIds |-> "absent"]
    /\ analyses_collection = << >> /\ audits_collection = << >>
    /\ pc = [c \in Calls |-> "off"]
    /\ document_ids = [c \in Calls |-> << >>]
    /\ query = [c \in Calls |-> None]
    /\ idx = [c \in Calls |-> 1]
    /\ analyses = [c \in Calls |-> << >>]
    /\ document = [c \in Calls |-> Null]
    /\ error = [c \in Calls |-> None]
    /\ result = [c \in Calls |-> Null]
    /\ next_id = 1
    /\ failures = 0

(***************************************************************************)
(* The specifications                                                      *)
(***************************************************************************)
\* the repository holds any documents and no analysis or audit yet; no call has begun
Init ==
    /\ documents = StoredDocuments
    /\ analyses_collection = << >> /\ audits_collection = << >>
    /\ pc = [c \in Calls |-> "idle"]
    /\ document_ids = [c \in Calls |-> << >>]
    /\ query = [c \in Calls |-> None]
    /\ idx = [c \in Calls |-> 1]
    /\ analyses = [c \in Calls |-> << >>]
    /\ document = [c \in Calls |-> Null]
    /\ error = [c \in Calls |-> None]
    /\ result = [c \in Calls |-> Null]
    /\ next_id = 1
    /\ failures = 0
    /\ ValuesOff /\ ScoreOff /\ RankOff /\ ExtractOff /\ OcrOff /\ ContainerOff

Next ==
    \E c \in Calls :
        \/ StartExecute(c)
        \/ GetDocument(c)
        \/ GetAnalysisByDocument(c)
        \/ ExtractFromBytes(c)
        \/ UpdateDocument(c)
        \/ SaveAnalysis(c)
        \/ SaveAuditSuccess(c)
        \/ ExceptDocument(c)
        \/ Finish(c)
        \/ ExceptBatch(c)

Spec == Init /\ [][Next]_vars

\* the longest list of document ids of a call that runs beside another one
MaxConcurrentBatch == 1

\* execute(document_ids, query) is called while other calls may be suspended at an
\* await: each call has its own locals
StartExecuteConcurrently(c) ==
    /\ pc[c] = "idle"
    /\ \E ids \in SeqsUpTo(ExecDocIds, MaxConcurrentBatch), q \in ExecQueries :
          /\ document_ids' = [document_ids EXCEPT ![c] = ids]
          /\ query' = [query EXCEPT ![c] = q]
          /\ pc' = [pc EXCEPT ![c] = IF ids # << >> THEN "get_document" ELSE "finish"]
    /\ UNCHANGED << documents, analyses_collection, audits_collection,
                    idx, analyses, document, error, result, next_id, failures,
                    valueVars, scoreVars, rankVars, extractVars, ocrVars, containerVars >>

\* the calls of execute interleave at their awaits
NextConcurrent ==
    \E c \in Calls :
        \/ StartExecuteConcurrently(c)
        \/ GetDocument(c)
        \/ GetAnalysisByDocument(c)
        \/ ExtractFromBytes(c)
        \/ UpdateDocument(c)
        \/ SaveAnalysis(c)
        \/ SaveAuditSuccess(c)
        \/ ExceptDocument(c)
        \/ Finish(c)
        \/ ExceptBatch(c)

SpecConcurrent == Init /\ [][NextConcurrent]_vars

InitValues ==
    /\ vin \in ValueInputs /\ vout = None /\ vpc = "new"
    /\ ScoreOff /\ RankOff /\ ExecOff /\ ExtractOff /\ OcrOff /\ ContainerOff

NextValues ==
    \/ NewTechnicalSkillSet
    \/ NewMatchScore
    \/ MatchScoreCalculate
    \/ NewExperienceYears
    \/ GetLevelSuggestion

SpecValues == InitValues /\ [][NextValues]_vars

InitScore ==
    /\ sanalysis \in ScoreAnalyses /\ squery \in ScoreQueries
    /\ requirements = None /\ terms = None /\ score = None /\ spc = "start"
    /\ ValuesOff /\ RankOff /\ ExecOff /\ ExtractOff /\ OcrOff /\ ContainerOff

NextScore == ParseQuery \/ CalculateMatchScore

SpecScore == InitScore /\ [][NextScore]_vars

InitRank ==
    /\ ranalyses \in RankLists /\ rquery \in RankQueries
    /\ matches = << >> /\ analysis_reasoning = None /\ rpc = "start"
    /\ ValuesOff /\ ScoreOff /\ ExecOff /\ ExtractOff /\ OcrOff /\ ContainerOff

NextRank == AnalyzeQueryMatch

SpecRank == InitRank /\ [][NextRank]_vars

(***************************************************************************)
(* SpecExtract: analyze_curriculum on the text of one document             *)
(***************************************************************************)
MaxParts == 2

\* pieces of curriculum text: level keywords, experience phrases, skill lists, the
\* empty piece, and a name line followed by a line with education and work area
TextParts ==
    { << "S", "e", "n", "i", "o", "r" >>,
      << "j", "ú", "n", "i", "o", "r" >>,
      << "p", "l", "e", "n", "o" >>,
      << "E", "s", "p", "e", "c", "i", "a", "l", "i", "s", "t", "a" >>,
      << "5", " ", "a", "n", "o", "s", " ", "d", "e", " ", "e", "x", "p", "e", "r", "i", "ê", "n", "c", "i", "a" >>,
      << "e", "x", "p", "e", "r", "i", "ê", "n", "c", "i", "a", " ", "d", "e", " ", "2", " ", "a", "n", "o", "s" >>,
      << "1", "+", " ", "a", "n", "o" >>,
      << "P", "y", "t", "h", "o", "n", ",", " ", "D", "o", "c", "k", "e", "r" >>,
      << "p", "y", "t", "h", "o", "n", " ", "j", "a", "v", "a", " ", "g", "o", " ", "r", "u", "s", "t", " ", "p", "h", "p", " ", "r", "u", "b", "y", " ", "s", "w", "i", "f", "t", " ", "k", "o", "t", "l", "i", "n", " ", "s", "c", "a", "l", "a", " ", "s", "q", "l" >>,
      << "r", "e", "a", "c", "t", " ", "v", "u", "e", " ", "m", "y", "s", "q", "l", " ", "r", "e", "d", "i", "s", " ", "a", "w", "s" >>,
      <<  >>,
      << "A", "n", "a", " ", "L", "i", "m", "a", "\n", "b", "a", "c", "h", "a", "r", "e", "l", "a", "d", "o", " ", "d", "e", "s", "e", "n", "v", "o", "l", "v", "e", "d", "o", "r" >> }

\* the extracted texts: up to MaxParts pieces separated by a space
PartLists == UNION { [1..n -> TextParts] : n \in 0..MaxParts }

FileNames == { << "c", "v", ".", "p", "d", "f" >> }


\* skills = self.extract_skills(text)
ExtractSkills ==
    /\ epc = "start"
    /\ eskills' = extract_skills(etext)
    /\ epc' = "skills"
    /\ UNCHANGED << eparts, etext, efile_name, eseed, eexperience, elevel, esummary,
                    eeducation, eanalysis, eerror >>
    /\ UNCHANGED << valueVars, scoreVars, rankVars, execVars, ocrVars, containerVars >>

\* experience = self.extract_experience(text)
ExtractExperience ==
    /\ epc = "skills"
    /\ eexperience' = experience_from_text(etext)
    /\ epc' = "experience"
    /\ UNCHANGED << eparts, etext, efile_name, eseed, eskills, elevel, esummary,
                    eeducation, eanalysis, eerror >>
    /\ UNCHANGED << valueVars, scoreVars, rankVars, execVars, ocrVars, containerVars >>

\* level = self.determine_level(text, skills, experience)
DetermineLevel ==
    /\ epc = "experience"
    /\ elevel' = determine_level(etext, eskills, eexperience)
    /\ epc' = "level"
    /\ UNCHANGED << eparts, etext, efile_name, eseed, eskills, eexperience, esummary,
                    eeducation, eanalysis, eerror >>
    /\ UNCHANGED << valueVars, scoreVars, rankVars, execVars, ocrVars, containerVars >>

\* summary = self.generate_summary(text, document.file_name)
GenerateSummary ==
    /\ epc = "level"
    /\ LET r == generate_summary(etext, efile_name, eseed)
       IN  IF r.ok
           THEN esummary' = r.value /\ epc' = "summary" /\ UNCHANGED eerror
           ELSE eerror' = r.error /\ epc' = "raised" /\ UNCHANGED esummary
    /\ UNCHANGED << eparts, etext, efile_name, eseed, eskills, eexperience, elevel,
                    eeducation, eanalysis >>
    /\ UNCHANGED << valueVars, scoreVars, rankVars, execVars, ocrVars, containerVars >>

\* education = self._extract_education(text)
ExtractEducation ==
    /\ epc = "summary"
    /\ eeducation' = extract_education(etext, eseed)
    /\ epc' = "education"
    /\ UNCHANGED << eparts, etext, efile_name, eseed, eskills, eexperience, elevel,
                    esummary, eanalysis, eerror >>
    /\ UNCHANGED << valueVars, scoreVars, rankVars, execVars, ocrVars, containerVars >>

BuildAnalysis_level_always ==
    /\ epc = "education"
    /\ eanalysis' = CurriculumAnalysis(None, DocId(1), esummary,
                                       to_list(eskills, eseed),
                                       IF eexperience > 0 THEN ExperienceStr(eexperience) ELSE None,
                                       LevelValue(elevel),
                                       eeducation)
    /\ epc' = "built"
    /\ UNCHANGED << eparts, etext, efile_name, eseed, eskills, eexperience, elevel,
                    esummary, eeducation, eerror >>
    /\ UNCHANGED << valueVars, scoreVars, rankVars, execVars, ocrVars, containerVars >>

\* analysis = CurriculumAnalysis(...); return analysis
BuildAnalysis ==
    /\ epc = "education"
    /\ eanalysis' = CurriculumAnalysis(None, DocId(1), esummary,
                                       to_list(eskills, eseed),
                                       IF eexperience > 0 THEN ExperienceStr(eexperience) ELSE None,
                                       IF elevel # "UNKNOWN" THEN LevelValue(elevel) ELSE None,
                                       eeducation)
    /\ epc' = "built"
    /\ UNCHANGED << eparts, etext, efile_name, eseed, eskills, eexperience, elevel,
                    esummary, eeducation, eerror >>
    /\ UNCHANGED << valueVars, scoreVars, rankVars, execVars, ocrVars, containerVars >>

InitExtract ==
    /\ eparts \in PartLists
    /\ etext = Join(eparts, << " " >>)
    /\ efile_name \in FileNames
    /\ eseed \in HashSeeds
    /\ eskills = { } /\ eexperience = 0 /\ elevel = "UNKNOWN" /\ esummary = None
    /\ eeducation = None /\ eanalysis = Null /\ eerror = None /\ epc = "start"
    /\ ValuesOff /\ ScoreOff /\ RankOff /\ ExecOff /\ OcrOff /\ ContainerOff

NextExtract ==
    \/ ExtractSkills
    \/ ExtractExperience
    \/ DetermineLevel
    \/ GenerateSummary
    \/ ExtractEducation
    \/ BuildAnalysis

SpecExtract == InitExtract /\ [][NextExtract]_vars

(***************************************************************************)
(* tesseract_extractor.py: SpecOcr, one call of extract_from_bytes         *)
(***************************************************************************)
MaxPages == 2

\* FileType: a member is written as its value
FileType ==
    { <<"a","p","p","l","i","c","a","t","i","o","n","/","p","d","f">>,
      <<"i","m","a","g","e","/","j","p","e","g">>,
      <<"i","m","a","g","e","/","j","p","g">>,
      <<"i","m","a","g","e","/","p","n","g">>,
      <<"i","m","a","g","e","/","b","m","p">>,
      <<"i","m","a","g","e","/","t","i","f","f">>,
      <<"i","m","a","g","e","/","g","i","f">>,
      <<"i","m","a","g","e","/","w","e","b","p">>,
      <<"u","n","k","n","o","w","n">> }

\* what the bytes of a file are to the libraries: an image Image.open can decode, with
\* the text image_to_string reads from it or the failure of the OCR engine; a PDF
\* PdfReader can read, with the text or the failure of extract_text for each page; or
\* bytes neither library accepts. A library call that raises has its name as message
Contents ==
    { [kind |-> "image", ocr |-> o, pages |-> << >>] :
        o \in { [raises |-> FALSE, text |-> t] :
                  t \in { << >>, <<" ","A","n","a","\n">>, <<"5"," ","a","n","o","s">> } }
              \cup { [raises |-> TRUE, text |-> None] } }
    \cup { [kind |-> "pdf", ocr |-> [raises |-> TRUE, text |-> None], pages |-> ps] :
             ps \in SeqsUpTo({ [raises |-> FALSE, text |-> <<"A","n","a"," ">>],
                               [raises |-> FALSE, text |-> << >>],
                               [raises |-> TRUE, text |-> None] }, MaxPages) }
    \cup { [kind |-> "garbage", ocr |-> [raises |-> TRUE, text |-> None], pages |-> << >>] }

\* the extraction failure returned as the text it left behind
extract_from_bytes_text_on_failure(content, file_type) ==
    IF file_type = <<"u","n","k","n","o","w","n">>
    THEN [ok |-> FALSE, error |-> "ValueError",
          message |-> <<"T","i","p","o"," ","d","e"," ","a","r","q","u","i","v","o"," ","n","ã","o"," ","s","u","p","o","r","t","a","d","o",":"," ">> \o file_type,
          text |-> None, attempts |-> << >>]
    ELSE IF file_type = <<"a","p","p","l","i","c","a","t","i","o","n","/","p","d","f">>
    THEN [ok |-> TRUE, error |-> None, message |-> None,
          text |-> IF content.kind = "pdf"
                   THEN Strip(Join([k \in 1..Len(content.pages) |->
                                        IF content.pages[k].raises THEN << >>
                                        ELSE content.pages[k].text \o << "\n" >>], << >>))
                   ELSE << >>,
          attempts |-> << "PdfReader" >>]
    ELSE [ok |-> TRUE, error |-> None, message |-> None,
          text |-> IF content.kind = "image" /\ ~content.ocr.raises
                   THEN Strip(content.ocr.text) ELSE << >>,
          attempts |-> << "Image.open" >>]

\* TesseractTextExtractor.extract_from_bytes: the text, or the error raised, and the
\* library calls that were made
extract_from_bytes(content, file_type) ==
    LET supported_image_types == FileType \ { <<"a","p","p","l","i","c","a","t","i","o","n","/","p","d","f">>,
                                              <<"u","n","k","n","o","w","n">> }
        supported_pdf_types == { <<"a","p","p","l","i","c","a","t","i","o","n","/","p","d","f">> }
        is_supported_type == file_type \in (supported_image_types \cup supported_pdf_types)
        Returned(text, attempts) ==
            [ok |-> TRUE, error |-> None, message |-> None, text |-> text, attempts |-> attempts]
        Raised(exception, message, attempts) ==
            [ok |-> FALSE, error |-> exception, message |-> message, text |-> None, attempts |-> attempts]
        \* _extract_from_image_bytes
        extract_from_image_bytes ==
            LET Wrapped(e) == <<"E","r","r","o"," ","n","o"," ","O","C","R"," ","d","a"," ","i","m","a","g","e","m",":"," ">> \o e
            IN  IF content.kind # "image"
                THEN Raised("Exception", Wrapped(<< "Image.open" >>), << "Image.open" >>)
                ELSE IF content.ocr.raises
                THEN Raised("Exception", Wrapped(<< "image_to_string" >>),
                            << "Image.open", "image_to_string" >>)
                ELSE Returned(Strip(content.ocr.text), << "Image.open", "image_to_string" >>)
        \* _extract_from_pdf_bytes
        extract_from_pdf_bytes ==
            LET Wrapped(e) == <<"E","r","r","o"," ","n","a"," ","e","x","t","r","a","ç","ã","o"," ","d","e"," ","P","D","F",":"," ">> \o e
                pages == content.pages
                failing == { k \in 1..Len(pages) : pages[k].raises }
                tried == IF failing = { } THEN Len(pages)
                         ELSE CHOOSE k \in failing : \A j \in failing : k <= j
                attempts == << "PdfReader" >> \o [k \in 1..tried |-> "extract_text"]
            IN  IF content.kind # "pdf"
                THEN Raised("Exception", Wrapped(<< "PdfReader" >>), << "PdfReader" >>)
                ELSE IF failing # { }
                THEN Raised("Exception", Wrapped(<< "extract_text" >>), attempts)
                ELSE Returned(Strip(Join([k \in 1..Len(pages) |-> pages[k].text \o << "\n" >>],
                                         << >>)),
                              attempts)
        \* the try block of extract_from_bytes and its except clause
        Rewrapped(r) ==
            IF r.ok THEN r
            ELSE Raised("Exception",
                        <<"E","r","r","o"," ","n","a"," ","e","x","t","r","a","ç","ã","o"," ","d","e"," ","t","e","x","t","o",":"," ">> \o r.message,
                        r.attempts)
    IN  IF ~is_supported_type
        THEN Raised("ValueError",
                    <<"T","i","p","o"," ","d","e"," ","a","r","q","u","i","v","o"," ","n","ã","o"," ","s","u","p","o","r","t","a","d","o",":"," ">> \o file_type,
                    << >>)
        ELSE IF file_type \in supported_image_types THEN Rewrapped(extract_from_image_bytes)
        ELSE IF file_type \in supported_pdf_types THEN Rewrapped(extract_from_pdf_bytes)
        ELSE Rewrapped(Raised("ValueError",
                              <<"T","i","p","o"," ","n","ã","o"," ","i","m","p","l","e","m","e","n","t","a","d","o",":"," ">> \o file_type,
                              << >>))

\* text_extractor.extract_from_bytes(content, file_type)
CallExtractFromBytes ==
    /\ opc = "start"
    /\ oresult' = extract_from_bytes(ocontent, otype)
    /\ opc' = "done"
    /\ UNCHANGED << otype, ocontent, valueVars, scoreVars, rankVars, execVars, extractVars,
                    containerVars >>

InitOcr ==
    /\ otype \in FileType /\ ocontent \in Contents /\ oresult = Null /\ opc = "start"
    /\ ValuesOff /\ ScoreOff /\ RankOff /\ ExecOff /\ ExtractOff /\ ContainerOff

NextOcr == CallExtractFromBytes

SpecOcr == InitOcr /\ [][NextOcr]_vars

(***************************************************************************)
(* dependency_container.py: SpecContainer, the callers of get_container    *)
(***************************************************************************)
NumCallers == 4

\* DependencyContainer(): which of the repository, the services and the use cases are set
DependencyContainer(repository, services, use_cases) ==
    [repository |-> repository, services |-> services, use_cases |-> use_cases]

\* get_container() up to its first suspension: with no global container one is created
\* and initialize() runs up to `await self._database_connection.connect()`; with a
\* global container, that container is returned
GetContainer(c) ==
    /\ cpc[c] = "idle"
    /\ \/ /\ container = Null
          /\ container' = DependencyContainer(FALSE, FALSE, FALSE)
          /\ cpc' = [cpc EXCEPT ![c] = "connect"]
          /\ UNCHANGED received
       \/ /\ container # Null
          /\ cpc' = [cpc EXCEPT ![c] = "returned"]
          /\ received' = [received EXCEPT ![c] = container]
          /\ UNCHANGED container
    /\ UNCHANGED << valueVars, scoreVars, rankVars, execVars, extractVars, ocrVars >>

\* connect() is over: it raised, and the exception leaves get_container with the global
\* container as it is; or it returned, the repository, the services and the use cases
\* are set and get_container returns the container
Initialize(c) ==
    /\ cpc[c] = "connect"
    /\ \/ /\ cpc' = [cpc EXCEPT ![c] = "raised"]
          /\ UNCHANGED << container, received >>
       \/ /\ container' = DependencyContainer(TRUE, TRUE, TRUE)
          /\ cpc' = [cpc EXCEPT ![c] = "returned"]
          /\ received' = [received EXCEPT ![c] = container']
    /\ UNCHANGED << valueVars, scoreVars, rankVars, execVars, extractVars, ocrVars >>

\* the request of caller c is over; the caller sends another one
NextRequest(c) ==
    /\ cpc[c] \in { "returned", "raised" }
    /\ cpc' = [cpc EXCEPT ![c] = "idle"]
    /\ received' = [received EXCEPT ![c] = Null]
    /\ UNCHANGED << container, valueVars, scoreVars, rankVars, execVars, extractVars, ocrVars >>

\* the process has started: no global container, no request yet
InitContainer ==
    /\ container = Null
    /\ cpc = [c \in 1..NumCallers |-> "idle"]
    /\ received = [c \in 1..NumCallers |-> Null]
    /\ ValuesOff /\ ScoreOff /\ RankOff /\ ExecOff /\ ExtractOff /\ OcrOff

NextContainer ==
    \E c \in 1..NumCallers : GetContainer(c) \/ Initialize(c) \/ NextRequest(c)

SpecContainer == InitContainer /\ [][NextContainer]_vars

(***************************************************************************)
(* Properties of the value objects (SpecValues)                            *)
(***************************************************************************)
\* C3: the TechnicalSkillSet built from any list of raw skill strings holds no two
\* members whose names are equal case-insensitively, and building it again from the
\* same list gives the same set of names
C3_NoCaseInsensitiveDuplicates ==
    (vpc = "built" /\ vin.kind = "skills") =>
        /\ \A s \in vout : \A t \in vout : Lower(s.name) = Lower(t.name) => s = t
        /\ { s.name : s \in TechnicalSkillSetInit(vin.arg) } = { s.name : s \in vout }

\* C8: MatchScore(x) is constructed and keeps value = x when 0 <= x <= 1, bounds
\* included; for x < 0 or x > 1 construction fails with a validation error, no object is
\* created and nothing is clamped
C8_MatchScoreValidation ==
    (vpc = "built" /\ vin.kind = "score") =>
        IF FLeq(FZero, vin.arg) /\ FLeq(vin.arg, FOne)
        THEN vout.ok /\ vout.value = vin.arg
        ELSE ~vout.ok /\ vout.error = "ValueError" /\ vout.value = None

\* MatchScore(1.0) is constructed with value 1.0
C8_Witness ==
    /\ vpc = "built" /\ vin.kind = "score"
    /\ vin.arg = FOne /\ vout.ok /\ vout.value = FOne

\* C9: ExperienceYears(n) fails with a validation error for n < 0 and is constructed for
\* n >= 0; get_level_suggestion() is Unknown for n = 0, Junior for n = 1, Mid for
\* 2 <= n < 5 and Senior for n >= 5
C9_LevelSuggestion ==
    /\ (vpc # "new" /\ vin.kind = "years") =>
          IF vin.arg < 0
          THEN ~vout.ok /\ vout.error = "ValueError" /\ vpc = "built"
          ELSE vout.ok /\ vout.years = vin.arg
    /\ (vpc = "suggested") =>
          vout.level = (IF vin.arg = 0 THEN "UNKNOWN"
                        ELSE IF vin.arg = 1 THEN "JUNIOR"
                        ELSE IF vin.arg < 5 THEN "PLENO"
                        ELSE "SENIOR")

\* ExperienceYears(5).get_level_suggestion() has returned Senior
C9_Witness ==
    /\ vpc = "suggested" /\ vin.kind = "years"
    /\ vin.arg = 5 /\ vout.level = "SENIOR"

(***************************************************************************)
(* Properties of the match scorer (SpecScore)                              *)
(***************************************************************************)
\* C2: when the query requires a level, the level term is 0.2 if the rank of the level of
\* the record is at least the required rank (Junior 1 < Mid 2 < Senior 3 < Specialist 4,
\* Unknown 0), 0.1 if the ranks are exactly 1 apart, and 0 otherwise
C2_LevelTermByRank ==
    (spc = "scored" /\ requirements.level # "UNKNOWN") =>
        LET cand_score == IF sanalysis.position_level = None THEN 0
                          ELSE level_scores(LevelOfValue(sanalysis.position_level))
            req_score  == level_scores(requirements.level)
        IN  terms.level = (IF cand_score >= req_score THEN Frac(2, 10)
                           ELSE IF req_score - cand_score = 1 THEN Frac(1, 10)
                           ELSE FZero)

\* C7: the score lies in [0, 1]; it is the sum of the four terms, none of them negative
\* and each at most its weight (0.4, 0.3, 0.2, 0.1), saturated at 1
C7_ScoreRange ==
    (spc = "scored") =>
        /\ FLeq(FZero, score) /\ FLeq(score, FOne)
        /\ FLeq(FZero, terms.skills)     /\ FLeq(terms.skills, Frac(4, 10))
        /\ FLeq(FZero, terms.experience) /\ FLeq(terms.experience, Frac(3, 10))
        /\ FLeq(FZero, terms.level)      /\ FLeq(terms.level, Frac(2, 10))
        /\ FLeq(FZero, terms.keywords)   /\ FLeq(terms.keywords, Frac(1, 10))
        /\ score = FMin(FAdd(FAdd(terms.skills, terms.experience),
                             FAdd(terms.level, terms.keywords)), FOne)

\* a score to which each of the four terms contributes
C7_Witness ==
    /\ spc = "scored"
    /\ FLt(FZero, terms.skills) /\ FLt(FZero, terms.experience)
    /\ FLt(FZero, terms.level) /\ FLt(FZero, terms.keywords)
    /\ FLt(Frac(9, 10), score)

\* C10: with required years r > 0 the experience term is 0.3 when the years y of the
\* record are at least r, 0.3 * y / r when they are fewer and 0 when the record has no
\* experience value; with r = 0 it is 0; it always lies in [0, 0.3]
C10_ExperienceTerm ==
    (spc = "scored") =>
        LET r == requirements.experience_years
        IN  /\ FLeq(FZero, terms.experience) /\ FLeq(terms.experience, Frac(3, 10))
            /\ r = 0 => terms.experience = FZero
            /\ (r > 0 /\ sanalysis.experience_years = None) => terms.experience = FZero
            /\ \A y \in 0..MaxRecordYears :
                  (r > 0 /\ sanalysis.experience_years = ExperienceStr(y)) =>
                      terms.experience = (IF y >= r THEN Frac(3, 10)
                                          ELSE Frac(3 * y, 10 * r))

\* a record of 2 years scored against 3 required years: the term is 0.2
C10_Witness ==
    /\ spc = "scored"
    /\ requirements.experience_years = 3
    /\ sanalysis.experience_years = ExperienceStr(2)
    /\ terms.experience = Frac(2, 10)

(***************************************************************************)
(* Properties of the ranking (SpecRank)                                    *)
(***************************************************************************)
\* C1: for the query "Python senior 3 anos" over [A, B], the skills term of A is 0.4, its
\* experience term 0.3 and its level term 0.2, its score is 0.9 plus the keyword term,
\* and A is ranked before B
C1_ExampleScores ==
    (/\ rpc = "ranked" /\ rquery = ExampleQuery
     /\ ranalyses = << ProfileA(1, DocId(1)), ProfileB(2, DocId(2)) >>) =>
        LET t == ScoreTerms(ranalyses[1], parse_query_requirements(rquery))
        IN  /\ t.skills = Frac(4, 10)
            /\ t.experience = Frac(3, 10)
            /\ t.level = Frac(2, 10)
            /\ matches[1].document_id = DocId(1)
            /\ matches[1].score = FAdd(Frac(9, 10), t.keywords)
            /\ matches[2].document_id = DocId(2)

\* the place of the analysis of a document in the list given to analyze_query_match
PlaceOf(d) == CHOOSE k \in 1..Len(ranalyses) : ranalyses[k].document_id = d

\* C4: analyze_query_match returns one match per analysis, in order of non-increasing
\* score, matches of equal score in the order of their analyses in the input list; a
\* second run on the same list and query returns the same list
C4_StableRanking ==
    (rpc = "ranked") =>
        /\ Len(matches) = Len(ranalyses)
        /\ { matches[k].document_id : k \in 1..Len(matches) }
               = { ranalyses[k].document_id : k \in 1..Len(ranalyses) }
        /\ \A k \in 1..Len(matches) :
              matches[k].score =
                  calculate_match_score(ranalyses[PlaceOf(matches[k].document_id)],
                                        parse_query_requirements(rquery))
        /\ \A i \in 1..Len(matches) : \A j \in 1..Len(matches) :
              i < j =>
                  /\ FLeq(matches[j].score, matches[i].score)
                  /\ matches[i].score = matches[j].score =>
                         PlaceOf(matches[i].document_id) < PlaceOf(matches[j].document_id)
        /\ matches = analyze_query_match(ranalyses, rquery)

\* three analyses ranked: the two of equal score first, in input order, the lower last
C4_Witness ==
    /\ rpc = "ranked" /\ Len(matches) = 3
    /\ matches[1].score = matches[2].score
    /\ matches[1].document_id = DocId(2) /\ matches[2].document_id = DocId(3)
    /\ matches[3].document_id = DocId(1)
    /\ FLt(matches[3].score, matches[2].score)

(***************************************************************************)
(* Properties of execute (Spec)                                            *)
(***************************************************************************)
\* C5: a failure while one document id is processed (fetching, extracting, analysing,
\* saving, recording its audit) stays with that document: a finished call has gone on
\* to every later document id of its list, and it returns the analyses it obtained
C5_FailureStaysWithDocument ==
    \A c \in Calls :
        (Finished(c) /\ Current(c)) =>
            /\ idx[c] >= Len(document_ids[c])
            /\ analyses[c] # << >> =>
                   (pc[c] = "returned" /\ result[c].analyses = analyses[c])

MatchedRequired(required, skills) ==
    Cardinality({ k \in 1..Len(required) :
                    \E j \in 1..Len(skills) : Lower(required[k]) = Lower(skills[j]) })

\* C11: the skills term is 0.4 * (required skills matched, letter case aside, by a name
\* of the record) / (required skills), and 0 when no skill is required; a record that
\* differs only in its skills and matches at least as many gets no lower a skills term
C11_SkillsTerm ==
    (spc = "scored") =>
        /\ terms.skills =
              (IF requirements.skills = << >> THEN FZero
               ELSE Frac(4 * MatchedRequired(requirements.skills, sanalysis.skills),
                         10 * Len(requirements.skills)))
        /\ \A k \in ScoreContents :
              MatchedRequired(requirements.skills, k.skills)
                  >= MatchedRequired(requirements.skills, sanalysis.skills) =>
                  FLeq(terms.skills,
                       SkillsTerm([sanalysis EXCEPT !.skills = k.skills], requirements))

\* a record with the skill Python scored against the required skills python and r:
\* one of two matched, the term is 0.2
C11_Witness ==
    /\ spc = "scored"
    /\ Len(requirements.skills) = 2
    /\ MatchedRequired(requirements.skills, sanalysis.skills) = 1
    /\ terms.skills = Frac(2, 10)

(***************************************************************************)
(* Properties of the extraction (SpecExtract)                              *)
(***************************************************************************)
\* the level family a piece of the text names, "UNKNOWN" for a piece without a level word
FamilyOfPart(part) ==
    CASE part = <<"S","e","n","i","o","r">> -> "SENIOR"
      [] part = <<"j","ú","n","i","o","r">> -> "JUNIOR"
      [] part = <<"p","l","e","n","o">> -> "PLENO"
      [] part = <<"E","s","p","e","c","i","a","l","i","s","t","a">> -> "ESPECIALISTA"
      [] OTHER -> "UNKNOWN"

\* the families named by the pieces of a text
FamiliesOf(parts) == { FamilyOfPart(parts[k]) : k \in 1..Len(parts) }

\* the earliest family, in the order Senior, Junior, Mid, Specialist, that a piece names
FirstFamily(parts) ==
    IF "SENIOR" \in FamiliesOf(parts) THEN "SENIOR"
    ELSE IF "JUNIOR" \in FamiliesOf(parts) THEN "JUNIOR"
    ELSE IF "PLENO" \in FamiliesOf(parts) THEN "PLENO"
    ELSE IF "ESPECIALISTA" \in FamiliesOf(parts) THEN "ESPECIALISTA"
    ELSE "UNKNOWN"

\* C13: ProfessionalLevel.from_text gives a text the level of the earliest keyword family,
\* in the order Senior, Junior, Mid, Specialist, that has a keyword in the text, wherever
\* the keywords stand in the text, and Unknown to a text without keyword, an empty text
\* included; a level found this way is the level analyze_curriculum determines
C13_FirstKeywordFamily ==
    /\ level_from_text(etext) = FirstFamily(eparts)
    /\ (epc \in { "level", "summary", "education", "built" } /\ FirstFamily(eparts) # "UNKNOWN")
           => elevel = FirstFamily(eparts)

\* the text "pleno Senior": the keyword of the later family stands first
C13_Witness ==
    /\ epc = "level"
    /\ eparts = << <<"p","l","e","n","o">>, <<"S","e","n","i","o","r">> >>
    /\ elevel = "SENIOR"

\* the level the chain of C12 gives for a keyword level, the years and a number of skills
ChainLevel(keyword_level, years, skill_count) ==
    IF keyword_level # "UNKNOWN" THEN keyword_level
    ELSE IF years >= 5 THEN "SENIOR"
    ELSE IF years >= 2 THEN "PLENO"
    ELSE IF years > 0 THEN "JUNIOR"
    ELSE IF skill_count >= 10 THEN "SENIOR"
    ELSE IF skill_count >= 5 THEN "PLENO"
    ELSE IF skill_count > 0 THEN "JUNIOR"
    ELSE "UNKNOWN"

\* C12: determine_level returns the first level other than Unknown of the keyword level
\* of the text, the level of the years (>= 5 Senior, >= 2 Mid, > 0 Junior) and the level
\* of the number of skills (>= 10 Senior, >= 5 Mid, > 0 Junior); it returns Unknown
\* exactly when the text has no keyword, the years are 0 and the skill set is empty
C12_LevelChain ==
    (epc \in { "level", "summary", "education", "built" }) =>
        /\ elevel = ChainLevel(FirstFamily(eparts), eexperience, Cardinality(eskills))
        /\ (elevel = "UNKNOWN") <=>
               (FirstFamily(eparts) = "UNKNOWN" /\ eexperience = 0 /\ eskills = { })

\* seven skills, no keyword and no experience: Mid by the number of skills
C12_Witness ==
    /\ epc = "level"
    /\ FirstFamily(eparts) = "UNKNOWN" /\ eexperience = 0 /\ Cardinality(eskills) = 7
    /\ elevel = "PLENO"

\* the steps of analyze_curriculum after the level is determined
AfterLevel == { "level", "summary", "education", "built" }

\* C17: in the record that analyze_curriculum builds, experience_years is None exactly
\* when the extracted years are 0 and else their display string "<years> anos",
\* position_level is None exactly when the determined level is Unknown and else the
\* value of the level, and skills holds the names of the extracted skill set, each once
C17_RecordFields ==
    (epc = "built") =>
        /\ (eanalysis.experience_years = None) <=> (eexperience = 0)
        /\ eexperience > 0 =>
               eanalysis.experience_years = IntToStr(eexperience) \o << " ", "a", "n", "o", "s" >>
        /\ (eanalysis.position_level = None) <=> (elevel = "UNKNOWN")
        /\ elevel # "UNKNOWN" => eanalysis.position_level = LevelValue(elevel)
        /\ { eanalysis.skills[k] : k \in 1..Len(eanalysis.skills) } = { s.name : s \in eskills }
        /\ Len(eanalysis.skills) = Cardinality(eskills)

\* the record of a text with five skills and two years of experience, whose level Mid
\* comes from the years
C17_Witness ==
    /\ epc = "built"
    /\ eexperience = 2 /\ eanalysis.experience_years = << "2", " ", "a", "n", "o", "s" >>
    /\ elevel = "PLENO" /\ eanalysis.position_level = << "P", "l", "e", "n", "o" >>
    /\ Len(eanalysis.skills) = 5

\* the text is made of empty pieces: the empty text or spaces only
BlankText == \A k \in 1..Len(eparts) : eparts[k] = << >>

\* C18: for an empty text and for a text of whitespace only, generate_summary returns
\* "Não foi possível extrair texto significativo de <file name>", the skill set extracted
\* from the text is empty, and no step of the analysis raises an error
C18_BlankText ==
    BlankText =>
        /\ epc # "raised" /\ eerror = None
        /\ epc # "start" => eskills = { }
        /\ epc \in { "summary", "education", "built" } =>
               esummary = << "N", "ã", "o", " ", "f", "o", "i", " ", "p", "o", "s", "s", "í", "v", "e", "l", " ", "e", "x", "t", "r", "a", "i", "r", " ", "t", "e", "x", "t", "o", " ", "s", "i", "g", "n", "i", "f", "i", "c", "a", "t", "i", "v", "o", " ", "d", "e", " " >> \o efile_name

\* the text of one space, after generate_summary returned
C18_Witness ==
    /\ epc = "summary"
    /\ etext = << " " >>
    /\ esummary = << "N", "ã", "o", " ", "f", "o", "i", " ", "p", "o", "s", "s", "í", "v", "e", "l", " ", "e", "x", "t", "r", "a", "i", "r", " ", "t", "e", "x", "t", "o", " ", "s", "i", "g", "n", "i", "f", "i", "c", "a", "t", "i", "v", "o", " ", "d", "e", " ", "c", "v", ".", "p", "d", "f" >>
    /\ eskills = { }

\* the text is made of "5 anos de experiência" and "Python, Docker", in either order,
\* and of empty pieces
ExampleText ==
    /\ \E k \in 1..Len(eparts) : eparts[k] = << "5", " ", "a", "n", "o", "s", " ", "d", "e", " ", "e", "x", "p", "e", "r", "i", "ê", "n", "c", "i", "a" >>
    /\ \E k \in 1..Len(eparts) : eparts[k] = << "P", "y", "t", "h", "o", "n", ",", " ", "D", "o", "c", "k", "e", "r" >>
    /\ \A k \in 1..Len(eparts) :
           eparts[k] \in { << "5", " ", "a", "n", "o", "s", " ", "d", "e", " ", "e", "x", "p", "e", "r", "i", "ê", "n", "c", "i", "a" >>,
                           << "P", "y", "t", "h", "o", "n", ",", " ", "D", "o", "c", "k", "e", "r" >>, << >> }

Listed(group) == { group[k] : k \in 1..Len(group) }

\* the category of the group that lists a lower-cased name, "Geral" when none does
GroupCategory(name_lower) ==
    IF name_lower \in Listed(languages) THEN "Linguagem de Programação"
    ELSE IF name_lower \in Listed(frameworks) THEN "Framework"
    ELSE IF name_lower \in Listed(databases) THEN "Banco de Dados"
    ELSE IF name_lower \in Listed(devops) THEN "DevOps"
    ELSE "Geral"

\* C20: every member of a TechnicalSkillSet has the category of the taxonomy group that
\* lists its name: Framework for a name of the framework list such as Django, Database
\* for a name of the database list, DevOps for a name of the devops list, Language for a
\* name of the language list, and General for any other name
C20_CategoryOfListingGroup ==
    (vpc = "built" /\ vin.kind = "skills") =>
        \A s \in vout : s.category = GroupCategory(Lower(s.name))

(***************************************************************************)
(* Further properties of the ranking (SpecRank)                            *)
(***************************************************************************)
NoProfiles == << "N", "e", "n", "h", "u", "m", " ", "c", "u", "r", "r", "í", "c", "u", "l", "o", " ", "p", "r", "o", "c", "e", "s", "s", "a", "d", "o", " ", "p", "a", "r", "a", " ", "a", "n", "á", "l", "i", "s", "e", "." >>

\* C14: analyze_query_match of an empty list of analyses returns, for every query, an
\* empty best_matches and the narrative "Nenhum currículo processado para análise.",
\* which cites no score of a first or second result
C14_EmptyList ==
    (rpc = "ranked" /\ ranalyses = << >>) =>
        /\ matches = << >>
        /\ analysis_reasoning = NoProfiles
        /\ ~Contains(analysis_reasoning, << "s", "c", "o", "r", "e" >>)

C14_Witness ==
    /\ rpc = "ranked" /\ ranalyses = << >> /\ rquery = ExampleQuery
    /\ analysis_reasoning = NoProfiles

\* the four recommendation sentences
Excellent == << "R", "e", "c", "o", "m", "e", "n", "d", "a", "ç", "ã", "o", ":", " ", "E", "x", "c", "e", "l", "e", "n", "t", "e", " ", "c", "a", "n", "d", "i", "d", "a", "t", "o", " ", "p", "a", "r", "a", " ", "a", " ", "p", "o", "s", "i", "ç", "ã", "o", "." >>
Good      == << "R", "e", "c", "o", "m", "e", "n", "d", "a", "ç", "ã", "o", ":", " ", "B", "o", "m", " ", "c", "a", "n", "d", "i", "d", "a", "t", "o", ",", " ", "r", "e", "c", "o", "m", "e", "n", "d", "o", " ", "e", "n", "t", "r", "e", "v", "i", "s", "t", "a", "." >>
Adequate  == << "R", "e", "c", "o", "m", "e", "n", "d", "a", "ç", "ã", "o", ":", " ", "C", "a", "n", "d", "i", "d", "a", "t", "o", " ", "a", "d", "e", "q", "u", "a", "d", "o", ",", " ", "a", "v", "a", "l", "i", "a", "r", " ", "o", "u", "t", "r", "o", "s", " ", "f", "a", "t", "o", "r", "e", "s", "." >>
Partial   == << "R", "e", "c", "o", "m", "e", "n", "d", "a", "ç", "ã", "o", ":", " ", "M", "a", "t", "c", "h", " ", "p", "a", "r", "c", "i", "a", "l", ",", " ", "c", "o", "n", "s", "i", "d", "e", "r", "a", "r", " ", "r", "e", "q", "u", "i", "s", "i", "t", "o", "s", " ", "a", "l", "t", "e", "r", "n", "a", "t", "i", "v", "o", "s", "." >>

\* the recommendation for a top score s
RecommendationFor(s) ==
    IF FLeq(Frac(8, 10), s) THEN Excellent
    ELSE IF FLeq(Frac(6, 10), s) /\ FLt(s, Frac(8, 10)) THEN Good
    ELSE IF FLeq(Frac(4, 10), s) /\ FLt(s, Frac(6, 10)) THEN Adequate
    ELSE Partial

EndsWith(s, suffix) == OccursAt(suffix, s, Len(s) - Len(suffix) + 1)

Occurrences(s, sub) == Cardinality({ p \in 1..Len(s) : OccursAt(sub, s, p) })

\* C15: for a non-empty ranked list the narrative cites the score of the first result,
\* and its reasons when it has any, cites the score of the second result if and only if
\* there are two results or more, and ends with the one recommendation sentence of the
\* top score s: excellent for s >= 0.8, good for 0.6 <= s < 0.8, adequate for
\* 0.4 <= s < 0.6, partial for s < 0.4; it holds no other recommendation sentence
C15_Narrative ==
    (rpc = "ranked" /\ matches # << >>) =>
        /\ \E f \in FormatScore(matches[1].score) :
               Contains(analysis_reasoning, << "a", "p", "r", "e", "s", "e", "n", "t", "a", " ", "s", "c", "o", "r", "e", " ", "d", "e", " " >> \o f \o << " " >>)
        /\ matches[1].match_reasons # << >> =>
               Contains(analysis_reasoning,
                        << "d", "e", "v", "i", "d", "o", " ", "a", ":", " " >> \o Join(matches[1].match_reasons, << ";", " " >>)
                            \o << ".", " " >>)
        /\ Contains(analysis_reasoning, << "O", " ", "s", "e", "g", "u", "n", "d", "o", " ", "c", "o", "l", "o", "c", "a", "d", "o" >>) <=> (Len(matches) >= 2)
        /\ Len(matches) >= 2 =>
               \E f \in FormatScore(matches[2].score) :
                   Contains(analysis_reasoning,
                            << "O", " ", "s", "e", "g", "u", "n", "d", "o", " ", "c", "o", "l", "o", "c", "a", "d", "o", " ", "t", "e", "m", " ", "s", "c", "o", "r", "e", " " >> \o f \o << ".", " " >>)
        /\ EndsWith(analysis_reasoning, RecommendationFor(matches[1].score))
        /\ Occurrences(analysis_reasoning, << "R", "e", "c", "o", "m", "e", "n", "d", "a", "ç", "ã", "o", ":" >>) = 1

\* two results, the first with a score of 0.8 or more
C15_Witness ==
    /\ rpc = "ranked" /\ Len(matches) = 2
    /\ FLeq(Frac(8, 10), matches[1].score)
    /\ EndsWith(analysis_reasoning, Excellent)
    /\ Contains(analysis_reasoning, << "O", " ", "s", "e", "g", "u", "n", "d", "o", " ", "c", "o", "l", "o", "c", "a", "d", "o", " ", "t", "e", "m", " ", "s", "c", "o", "r", "e", " " >>)

\* the lines of a reason list that come from the record alone
RecordLines(a) ==
    (IF a.experience_years # None THEN << << "E", "x", "p", "e", "r", "i", "ê", "n", "c", "i", "a", ":", " " >> \o a.experience_years >> ELSE << >>)
    \o (IF a.position_level # None THEN << << "N", "í", "v", "e", "l", ":", " " >> \o a.position_level >> ELSE << >>)
    \o (IF a.education # None THEN << << "F", "o", "r", "m", "a", "ç", "ã", "o", ":", " " >> \o a.education >> ELSE << >>)

\* C16: the reason list of a match is, in this order, a matched-skills line, present only
\* if the record has a required skill, then the experience line if and only if the record
\* has an experience, the level line if and only if it has a level, and the education
\* line if and only if it has an education; the last three are the same for every query
C16_ReasonList ==
    (rpc = "ranked") =>
        \A k \in 1..Len(matches) :
            LET a == ranalyses[PlaceOf(matches[k].document_id)]
                reasons == matches[k].match_reasons
            IN  \/ reasons = RecordLines(a)
                \/ /\ Len(reasons) = Len(RecordLines(a)) + 1
                   /\ Tail(reasons) = RecordLines(a)
                   /\ OccursAt(<< "D", "o", "m", "í", "n", "i", "o", " ", "e", "m", ":", " " >>, reasons[1], 1)
                   /\ MatchedRequired(parse_query_requirements(rquery).skills, a.skills) >= 1

\* a match with the four lines
C16_Witness ==
    /\ rpc = "ranked"
    /\ \E k \in 1..Len(matches) :
           /\ Len(matches[k].match_reasons) = 4
           /\ matches[k].match_reasons[1] = << "D", "o", "m", "í", "n", "i", "o", " ", "e", "m", ":", " ", "p", "y", "t", "h", "o", "n" >>
           /\ matches[k].match_reasons[4] = << "F", "o", "r", "m", "a", "ç", "ã", "o", ":", " ", "B", "a", "c", "h", "a", "r", "e", "l", "a", "d", "o" >>

(***************************************************************************)
(* Properties of the query parser (SpecScore)                              *)
(***************************************************************************)
\* C22: the required level parsed from a query is ProfessionalLevel.from_text of the
\* query whenever that classification is Senior, Junior or Mid, and Unknown otherwise;
\* a query never yields Specialist
C22_QueryLevel ==
    (spc # "start") =>
        /\ requirements.level =
               (IF level_from_text(squery) \in { "SENIOR", "JUNIOR", "PLENO" }
                THEN level_from_text(squery)
                ELSE "UNKNOWN")
        /\ requirements.level # "ESPECIALISTA"

\* the place of a token in the taxonomy
TaxonomyPlace(token) ==
    CHOOSE k \in 1..Len(technical_skills_patterns) : technical_skills_patterns[k] = token

\* C23: the required skills of a query are exactly the taxonomy tokens that occur
\* anywhere in the lower-cased query as a substring, each listed once, in taxonomy
\* order; a token inside a longer word is required too, although the extraction from a
\* résumé, which takes whole words only, does not find it in the same text
C23_QuerySkills ==
    (spc = "parsed") =>
        LET skills == requirements.skills
            Substrings(query_lower) ==
                \A k \in 1..Len(technical_skills_patterns) :
                    Contains(query_lower, technical_skills_patterns[k])
                        <=> \E j \in 1..Len(skills) : skills[j] = technical_skills_patterns[k]
            WholeWords(extracted) ==
                \A j \in 1..Len(skills) :
                    Title(skills[j]) \in extracted <=> SearchWord(skills[j], Lower(squery))
        IN  /\ Let(Lower(squery), Substrings)
            /\ \A i, j \in 1..Len(skills) :
                   i < j => TaxonomyPlace(skills[i]) < TaxonomyPlace(skills[j])
            /\ Let({ s.name : s \in extract_skills(squery) }, WholeWords)

\* the query "java go senior 3 anos": java, go and the r of "senior" are required, in
\* the order of the taxonomy, and the extraction finds Java and Go only
C23_Witness ==
    /\ spc = "parsed"
    /\ squery = <<"j","a","v","a"," ","g","o"," ","s","e","n","i","o","r"," ","3"," ","a","n","o","s">>
    /\ Len(requirements.skills) = 3
    /\ \E j \in 1..3 : requirements.skills[j] = << "r" >>
    /\ { s.name : s \in extract_skills(squery) } = { <<"J","a","v","a">>, <<"G","o">> }

(***************************************************************************)
(* Further properties of the extraction (SpecExtract)                      *)
(***************************************************************************)
\* the pattern a piece of the text is a phrase of and the number it gives, pattern 0
\* for a piece that is no experience phrase
PhraseOfPart(part) ==
    CASE part = <<"5"," ","a","n","o","s"," ","d","e"," ","e","x","p","e","r","i","ê","n","c","i","a">>
             -> [pattern |-> 1, years |-> 5]
      [] part = <<"e","x","p","e","r","i","ê","n","c","i","a"," ","d","e"," ","2"," ","a","n","o","s">>
             -> [pattern |-> 2, years |-> 2]
      [] part = <<"1","+"," ","a","n","o">>
             -> [pattern |-> 4, years |-> 1]
      [] OTHER -> [pattern |-> 0, years |-> 0]

\* C24: the experience taken from a text is the number of the experience phrase whose
\* pattern comes first in the fixed order of the patterns, wherever the phrases stand in
\* the text and however many there are; it is that one number, never a sum; it is 0 for
\* a text without an experience phrase and for the empty text
C24_FirstPattern ==
    (epc \notin { "off", "start", "skills" }) =>
        LET phrases == { PhraseOfPart(eparts[k]) : k \in 1..Len(eparts) } \ { PhraseOfPart(<< >>) }
        IN  IF phrases = { } THEN eexperience = 0
            ELSE \E first \in phrases :
                     /\ \A other \in phrases : first.pattern <= other.pattern
                     /\ eexperience = first.years

\* the text "1+ ano 5 anos de experiência": the phrase of the fourth pattern stands
\* first, the number is the 5 of the first pattern
C24_Witness ==
    /\ epc = "experience"
    /\ eparts = << <<"1","+"," ","a","n","o">>,
                   <<"5"," ","a","n","o","s"," ","d","e"," ","e","x","p","e","r","i","ê","n","c","i","a">> >>
    /\ eexperience = 5

(***************************************************************************)
(* Properties of MatchScore.calculate (SpecValues)                         *)
(***************************************************************************)
\* the number of required skills, repetitions counted, that the candidate has under
\* any letter case
RequiredHeld(arg) ==
    Cardinality({ k \in 1..Len(arg.required_skills) :
                    \E s \in arg.candidate_skills : Lower(s.name) = Lower(arg.required_skills[k]) })

\* the rank of a level, Unknown ranked 0
RankOfLevel(l) ==
    CASE l = "UNKNOWN" -> 0 [] l = "JUNIOR" -> 1 [] l = "PLENO" -> 2
      [] l = "SENIOR" -> 3 [] l = "ESPECIALISTA" -> 4

\* C25: MatchScore.calculate returns min(1, skills + experience + level): skills is 0.5
\* times the share of the required skills the candidate has, experience is 0.3 when the
\* candidate has the required years and 0.3 times the share of them otherwise, level is
\* 0.2 when the candidate's rank is at least the required rank, 0.1 when it is exactly
\* one below, and 0 otherwise, Unknown ranked 0; an empty skill list, a requirement of
\* 0 years and the required level Unknown contribute nothing; the result is always a
\* valid MatchScore, in [0, 1]
C25_Calculate ==
    (vpc = "built" /\ vin.kind = "calculate") =>
        LET arg == vin.arg
            skills_share ==
                IF Len(arg.required_skills) = 0 THEN FZero
                ELSE Frac(5 * RequiredHeld(arg), 10 * Len(arg.required_skills))
            experience_share ==
                IF arg.required_experience = 0 THEN FZero
                ELSE IF arg.candidate_experience >= arg.required_experience THEN Frac(3, 10)
                ELSE Frac(3 * arg.candidate_experience, 10 * arg.required_experience)
            distance == RankOfLevel(arg.required_level) - RankOfLevel(arg.candidate_level)
            level_share ==
                IF arg.required_level = "UNKNOWN" THEN FZero
                ELSE IF distance <= 0 THEN Frac(2, 10)
                ELSE IF distance = 1 THEN Frac(1, 10)
                ELSE FZero
            total == FAdd(FAdd(skills_share, experience_share), level_share)
        IN  /\ vout.ok
            /\ vout.value = (IF FLeq(total, FOne) THEN total ELSE FOne)
            /\ FLeq(FZero, vout.value) /\ FLeq(vout.value, FOne)

\* python and go required and Python held, 2 years required and 1 held, Senior required
\* of a Mid candidate: 0.25 + 0.15 + 0.1
C25_Witness ==
    /\ vpc = "built" /\ vin.kind = "calculate"
    /\ Len(vin.arg.required_skills) = 2 /\ RequiredHeld(vin.arg) = 1
    /\ vin.arg.required_experience = 2 /\ vin.arg.candidate_experience = 1
    /\ vin.arg.required_level = "SENIOR" /\ vin.arg.candidate_level = "PLENO"
    /\ vout.ok /\ vout.value = Frac(1, 2)

(***************************************************************************)
(* Further properties of execute (Spec)                                    *)
(***************************************************************************)
\* C26: a call of execute with a non-empty query that completes successfully returns
\* matching results the query endpoint can read, a ranked list and a narrative; when no
\* document id yielded an analysis the list is empty and the narrative is the fixed
\* text "Nenhum currículo processado para análise."
C26_MatchingResultsReadable ==
    \A c \in Calls :
        (pc[c] = "returned" /\ Current(c) /\ Truthy(query[c]) /\ result[c].success) =>
            /\ QueryAnalysisResponse(result[c]).status_code = 200
            /\ result[c].analyses = << >> =>
                   /\ QueryAnalysisResponse(result[c]).best_matches = << >>
                   /\ QueryAnalysisResponse(result[c]).analysis_reasoning = NoProfiles

\* C28: execute never lets an exception reach its caller: whatever call of the
\* repository, the extractor or the intelligence service fails, the saving of an audit
\* included, the call returns a result, and when the batch as a whole failed the result
\* has success = False and the error text
C28_NeverRaises ==
    \A c \in Calls :
        /\ pc[c] # "raised"
        /\ (pc[c] = "returned" /\ Current(c) /\ error[c] # None /\ ~result[c].success) =>
               result[c].error_message = error[c]

\* the 'document_analysis' audits of document d with the given success flag
DocumentAudits(d, success) ==
    { k \in 1..Len(audits_collection) :
        /\ audits_collection[k].action = "document_analysis"
        /\ audits_collection[k].document_id = d
        /\ audits_collection[k].success = success }

\* C30: a call over distinct document ids writes, for each of them, exactly one
\* 'document_analysis' audit when the document is newly analysed, with success true and
\* only after the analysis was saved, or when its processing fails, with success false
\* and the error text; it writes none for a document that is missing or already has an
\* analysis; a document whose analysis is in the returned list has no failure audit
C30_OneAuditPerDocument ==
    \A c \in Calls :
        (/\ pc[c] = "returned" /\ \A o \in Calls \ { c } : pc[o] = "idle"
         /\ \A i, j \in 1..Len(document_ids[c]) :
                document_ids[c][i] = document_ids[c][j] => i = j) =>
            \A d \in ExecDocIds :
                LET saved    == \E k \in 1..Len(analyses_collection) :
                                    analyses_collection[k].document_id = d
                    returned == \E k \in 1..Len(result[c].analyses) :
                                    result[c].analyses[k].document_id = d
                IN  /\ Cardinality(DocumentAudits(d, TRUE) \cup DocumentAudits(d, FALSE)) <= 1
                    /\ saved <=> DocumentAudits(d, TRUE) # { }
                    /\ \A k \in DocumentAudits(d, FALSE) :
                           audits_collection[k].error_message # None
                    /\ (\A k \in 1..Len(document_ids[c]) : document_ids[c][k] # d) =>
                           DocumentAudits(d, TRUE) \cup DocumentAudits(d, FALSE) = { }
                    /\ returned => DocumentAudits(d, FALSE) = { }

(***************************************************************************)
(* Properties of concurrent calls of execute (SpecConcurrent)              *)
(***************************************************************************)
\* C29: when calls of execute that share a document id run concurrently and interleave
\* at their awaits, at most one analysis is saved for that document id
C29_OneAnalysisWhenConcurrent ==
    \A i, j \in 1..Len(analyses_collection) :
        analyses_collection[i].document_id = analyses_collection[j].document_id => i = j

(***************************************************************************)
(* Properties of the text extractor (SpecOcr)                              *)
(***************************************************************************)
\* the extraction step of a supported type fails on these bytes
ExtractionFails ==
    IF otype = <<"a","p","p","l","i","c","a","t","i","o","n","/","p","d","f">>
    THEN ocontent.kind # "pdf" \/ \E k \in 1..Len(ocontent.pages) : ocontent.pages[k].raises
    ELSE ocontent.kind # "image" \/ ocontent.ocr.raises

\* C21: extract_from_bytes of the unsupported type UNKNOWN fails with an error whose
\* message holds the type, without any OCR or PDF call; for a supported type a failure
\* of the extraction step reaches the caller as an error, never as a text, empty or
\* partial
C21_ExtractionErrors ==
    (opc = "done") =>
        IF otype = <<"u","n","k","n","o","w","n">>
        THEN /\ ~oresult.ok /\ oresult.error = "ValueError"
             /\ Contains(oresult.message, otype)
             /\ oresult.attempts = << >>
        ELSE /\ ExtractionFails => (~oresult.ok /\ oresult.text = None /\ oresult.message # None)
             /\ ~ExtractionFails => (oresult.ok /\ oresult.text # None)

\* a PDF whose first page gives "Ana " and whose second page cannot be read: an error
C21_Witness ==
    /\ opc = "done"
    /\ otype = <<"a","p","p","l","i","c","a","t","i","o","n","/","p","d","f">>
    /\ ocontent.kind = "pdf" /\ Len(ocontent.pages) = 2
    /\ ~ocontent.pages[1].raises /\ ocontent.pages[1].text = <<"A","n","a"," ">>
    /\ ocontent.pages[2].raises
    /\ ~oresult.ok
    /\ oresult.attempts = << "PdfReader", "extract_text", "extract_text" >>

(***************************************************************************)
(* Properties of the dependency container (SpecContainer)                  *)
(***************************************************************************)
\* C27: a caller of get_container only ever receives a container whose initialize()
\* has completed, with its repository, services and use cases set, however the callers
\* interleave at the await inside get_container and also after an initialization that
\* failed
C27_OnlyInitializedContainers ==
    \A c \in 1..NumCallers :
        cpc[c] = "returned" =>
            /\ received[c].repository
            /\ received[c].services
            /\ received[c].use_cases

====
